---- MODULE Spec2Model ----
(***************************************************************************)
(* Model of the price-feed Binance order-book reconciler                   *)
(* (exchanges/binance/binance.go), the order-book part of the sorted       *)
(* store client (storage) and the data model (models).                     *)
(*                                                                         *)
(* One reconciler goroutine per symbol runs SubscribeOrderBook; the depth  *)
(* stream's handler runs updateOrderBook under the cache mutex.            *)
(***************************************************************************)
EXTENDS Integers, Sequences, FiniteSets, TLC

(***************************************************************************)
(* Bounds of the model                                                     *)
(***************************************************************************)
\* largest update id carried by a snapshot or a depth event
MaxU == 3
\* largest number of bid levels plus ask levels in one depth event (SpecApply)
MaxLevels == 2
\* number of depth events delivered in one behaviour (Spec)
MaxEvents == 2
\* number of times the clock advances in one behaviour
MaxTicks == 2
\* largest number of levels on a side of a book found in the store at start
MaxSide == 3
\* largest depth asked of GET /orderBook (SpecFormat)
MaxDepth == 3
\* number of candles written in one behaviour (SpecCandles)
MaxWrites == 3
\* largest number of subscriptions registered with the worker (SpecStop)
MaxSubs == 2

(***************************************************************************)
(* Program constants                                                       *)
(***************************************************************************)
\* binance.go:24
zero == "0.00000000"
\* storage: orderBookExpiration = 1 * time.Minute, in seconds
orderBookExpiration == 60
\* the clock (Unix seconds) starts at StartTime and advances by TickStep
StartTime == 10 * orderBookExpiration
TickStep == orderBookExpiration \div 2
MaxNow == StartTime + MaxTicks * TickStep
StatusOK == 200
StatusTooManyRequests == 429

\* models.BinanceSymbols (the first two of the list)
Symbols == {"LTCBTC", "ETHBTC"}

\* textual decimals of the exchange: prices and sizes of levels
Prices == {"0.01", "0.02"}
Sizes == {zero, "0", "2"}

(***************************************************************************)
(* Go maps from price to size                                              *)
(***************************************************************************)
EmptyMap == [p \in {} |-> ""]

\* m[k] = v
Put(m, k, v) == [p \in (DOMAIN m) \cup {k} |-> IF p = k THEN v ELSE m[p]]

\* delete(m, k)
Del(m, k) == [p \in (DOMAIN m) \ {k} |-> m[p]]

(***************************************************************************)
(* models.OrderBookInternal and the REST response it is made from          *)
(***************************************************************************)
OrderBookInternal(id, bids, asks) ==
    [LastUpdateID |-> id, Bids |-> bids, Asks |-> asks]

\* the zero value of the struct that a missing cache entry reads as
NoOrderBook == [LastUpdateID |-> 0, Bids |-> EmptyMap, Asks |-> EmptyMap]

RECURSIVE PairsToMap(_, _)
PairsToMap(m, pairs) ==
    IF pairs = <<>> THEN m
    ELSE PairsToMap(Put(m, Head(pairs)[1], Head(pairs)[2]), Tail(pairs))

SerializeBinanceOrderBookREST(data) ==
    OrderBookInternal(data.LastUpdateID,
                      PairsToMap(EmptyMap, data.Bids),
                      PairsToMap(EmptyMap, data.Asks))

\* json.Marshal of an OrderBookInternal: LastUpdateID is tagged json:"-"
Marshal(orderBook) == [bids |-> orderBook.Bids, asks |-> orderBook.Asks]

(***************************************************************************)
(* The sorted store: a key holds a set of members, each with one score     *)
(***************************************************************************)
\* a formatKey that leaves the symbol out: every order book under one key
formatKeyShared(a, b) == a

\* Client.formatKey: the arguments joined with a colon
formatKey(a, b) == a \o ":" \o b

\* Client.store: ZADD key score val (a member already present is re-scored)
store(zset, score, val) ==
    {e \in zset : e.Member # val} \cup {[Member |-> val, Score |-> score]}

\* Client.purge: ZREMRANGEBYSCORE key min max (both ends inclusive)
purge(zset, min, max) == {e \in zset : ~(min <= e.Score /\ e.Score <= max)}

\* Client.StoreOrderBookInternal with the outcome of the two store calls:
\* t1 and t2 are the two readings of time.Now(), purgeErr and storeErr say
\* whether the purge and the add fail.  Returns the key's new content,
\* the error, and which of the two calls were made.
StoreOrderBookInternalAddAnyway(zset, orderBook, t1, t2, purgeErr, storeErr) ==
    LET purged == IF purgeErr THEN zset
                  ELSE purge(zset, 0, t1 - orderBookExpiration)
    IN [zset  |-> IF storeErr THEN purged
                  ELSE store(purged, t2, Marshal(orderBook)),
        err   |-> purgeErr \/ storeErr,
        purge |-> IF purgeErr THEN "err" ELSE "ok",
        add   |-> IF storeErr THEN "err" ELSE "ok"]

StoreOrderBookInternal(zset, orderBook, t1, t2, purgeErr, storeErr) ==
    IF purgeErr
    THEN [zset |-> zset, err |-> TRUE, purge |-> "err", add |-> "none"]
    ELSE LET purged == purge(zset, 0, t1 - orderBookExpiration)
         IN IF storeErr
            THEN [zset |-> purged, err |-> TRUE, purge |-> "ok", add |-> "err"]
            ELSE [zset  |-> store(purged, t2, Marshal(orderBook)),
                  err   |-> FALSE, purge |-> "ok", add |-> "ok"]

(***************************************************************************)
(* Worker.updateOrderBook                                                  *)
(***************************************************************************)
\* line 324: drop any event where u is <= lastUpdateId in the snapshot
ShouldDropStrict(orderBook, event) == event.UpdateID < orderBook.LastUpdateID

ShouldDrop(orderBook, event) == event.UpdateID <= orderBook.LastUpdateID

\* one iteration of the loop over event.Bids (resp. event.Asks)
applyLevelLooseZero(side, level) ==
    IF level.Quantity \in {zero, "0"}
    THEN Del(side, level.Price)
    ELSE Put(side, level.Price, level.Quantity)

applyLevel(side, level) ==
    IF level.Quantity = zero
    THEN Del(side, level.Price)
    ELSE Put(side, level.Price, level.Quantity)

RECURSIVE applyLevels(_, _)
applyLevels(side, levels) ==
    IF levels = <<>> THEN side
    ELSE applyLevels(applyLevel(side, Head(levels)), Tail(levels))

\* The whole of updateOrderBook on the cache entry orderBook and the store
\* key's content zset.  The entry's LastUpdateID is never assigned.
updateOrderBookFailOnStore(orderBook, zset, event, t1, t2, purgeErr, storeErr) ==
    IF ShouldDrop(orderBook, event)
    THEN [orderBook |-> orderBook, zset |-> zset, err |-> FALSE,
          applied |-> FALSE, purge |-> "none", add |-> "none"]
    ELSE LET ob == [orderBook EXCEPT
                       !.Bids = applyLevels(orderBook.Bids, event.Bids),
                       !.Asks = applyLevels(orderBook.Asks, event.Asks)]
             st == StoreOrderBookInternal(zset, ob, t1, t2, purgeErr, storeErr)
         IN [orderBook |-> IF st.err THEN orderBook ELSE ob,
             zset |-> st.zset, err |-> st.err,
             applied |-> TRUE, purge |-> st.purge, add |-> st.add]

updateOrderBook(orderBook, zset, event, t1, t2, purgeErr, storeErr) ==
    IF ShouldDrop(orderBook, event)
    THEN [orderBook |-> orderBook, zset |-> zset, err |-> FALSE,
          applied |-> FALSE, purge |-> "none", add |-> "none"]
    ELSE LET ob == [orderBook EXCEPT
                       !.Bids = applyLevels(orderBook.Bids, event.Bids),
                       !.Asks = applyLevels(orderBook.Asks, event.Asks)]
             st == StoreOrderBookInternal(zset, ob, t1, t2, purgeErr, storeErr)
         IN [orderBook |-> ob, zset |-> st.zset, err |-> FALSE,
             applied |-> TRUE, purge |-> st.purge, add |-> st.add]

(***************************************************************************)
(* Worker.getOrderBook: the REST snapshot                                  *)
(***************************************************************************)
\* the zero value of models.OrderBookResponse
ZeroOrderBookResponse == [LastUpdateID |-> 0, Bids |-> <<>>, Asks |-> <<>>]

\* response bodies: a depth document, a JSON error object such as
\* {"code":-1003,"msg":"..."}, or text that is not JSON
DepthBody(data) == [kind |-> "depth", data |-> data]
ErrorBody == [kind |-> "error", data |-> ZeroOrderBookResponse]
TextBody == [kind |-> "text", data |-> ZeroOrderBookResponse]

\* the outcomes of http.Get: a transport error, or a status with a body;
\* a depth document comes with status 200
TransportError == [err |-> TRUE, StatusCode |-> 0, body |-> TextBody]
Responses(snapshots) ==
    {TransportError}
    \cup {[err |-> FALSE, StatusCode |-> StatusOK, body |-> DepthBody(d)] :
             d \in snapshots}
    \cup {[err |-> FALSE, StatusCode |-> c, body |-> b] :
             c \in {StatusTooManyRequests, 500},
             b \in {ErrorBody, TextBody}}

\* json.NewDecoder(resp.Body).Decode(&data): fields the document lacks keep
\* their zero value; text that is not JSON is an error
Decode(body) ==
    [err |-> body.kind = "text",
     data |-> IF body.kind = "depth" THEN body.data ELSE ZeroOrderBookResponse]

\* lines 436-440: which statuses make getOrderBook return an error
BadStatus(StatusCode) ==
    StatusCode # StatusTooManyRequests /\ StatusCode # StatusOK

\* getOrderBook on the outcome resp of http.Get; after a 429 it sleeps
\* apiInterval and goes on to decode the body of that same response
getOrderBook(resp) ==
    IF resp.err
    THEN [err |-> "get", response |-> NoOrderBook]
    ELSE IF BadStatus(resp.StatusCode)
    THEN [err |-> "bad status code", response |-> NoOrderBook]
    ELSE IF Decode(resp.body).err
    THEN [err |-> "decode", response |-> NoOrderBook]
    ELSE [err |-> "nil",
          response |-> SerializeBinanceOrderBookREST(Decode(resp.body).data)]

(***************************************************************************)
(* Texts: the bytes of the decimal texts, strconv.ParseFloat, json.Marshal *)
(***************************************************************************)
\* the bytes of the texts of the model ("x" and "" are not numbers)
TextCodes(s) ==
    CASE s = "0.00000000" -> <<48, 46, 48, 48, 48, 48, 48, 48, 48, 48>>
      [] s = "0"     -> <<48>>
      [] s = "1"     -> <<49>>
      [] s = "2"     -> <<50>>
      [] s = "3"     -> <<51>>
      [] s = "4"     -> <<52>>
      [] s = "5"     -> <<53>>
      [] s = "0.06"  -> <<48, 46, 48, 54>>
      [] s = "0.12"  -> <<48, 46, 49, 50>>
      [] s = "0.18"  -> <<48, 46, 49, 56>>
      [] s = "0.01"  -> <<48, 46, 48, 49>>
      [] s = "0.010" -> <<48, 46, 48, 49, 48>>
      [] s = "0.02"  -> <<48, 46, 48, 50>>
      [] s = "0.03"  -> <<48, 46, 48, 51>>
      [] s = "0.008" -> <<48, 46, 48, 48, 56>>
      [] s = "0.009" -> <<48, 46, 48, 48, 57>>
      [] s = "-1"    -> <<45, 49>>
      [] s = "1700" -> <<49, 55, 48, 48>>
      [] s = "1701" -> <<49, 55, 48, 49>>
      [] s = "1702" -> <<49, 55, 48, 50>>
      [] s = "1699200" -> <<49, 54, 57, 57, 50, 48, 48>>
      [] s = "1701000" -> <<49, 55, 48, 49, 48, 48, 48>>
      [] s = "x"     -> <<120>>
      [] s = "timeStart" -> <<116, 105, 109, 101, 83, 116, 97, 114, 116>>
      [] s = "timeEnd" -> <<116, 105, 109, 101, 69, 110, 100>>
      [] s = "time"  -> <<116, 105, 109, 101>>
      [] s = "open"  -> <<111, 112, 101, 110>>
      [] s = "close" -> <<99, 108, 111, 115, 101>>
      [] s = "high"  -> <<104, 105, 103, 104>>
      [] s = "low"   -> <<108, 111, 119>>
      [] s = "volume" -> <<118, 111, 108, 117, 109, 101>>
      [] s = ""      -> <<>>

\* bytes.Compare(a, b) < 0
BytesLess(a, b) ==
    \E i \in 1..Len(b) :
        /\ \A j \in 1..(i - 1) : j <= Len(a) /\ a[j] = b[j]
        /\ i = Len(a) + 1 \/ (i <= Len(a) /\ a[i] < b[i])

RECURSIVE Pow10(_)
Pow10(n) == IF n = 0 THEN 1 ELSE 10 * Pow10(n - 1)

\* the number a run of decimal digits reads as
RECURSIVE DigitsValue(_)
DigitsValue(digits) ==
    IF digits = <<>> THEN 0
    ELSE 10 * DigitsValue(SubSeq(digits, 1, Len(digits) - 1))
         + (digits[Len(digits)] - 48)

\* a sign, then decimal digits with at most one point among them
Unsigned(c) == IF c # <<>> /\ c[1] \in {43, 45} THEN Tail(c) ELSE c

Negative(c) == c # <<>> /\ c[1] = 45

\* strconv.ParseFloat(s, 64) on a plain decimal text: the value in units of
\* 10^-8, or an error for a text that is not a number
ParseFloat(s) ==
    LET c == Unsigned(TextCodes(s))
        dots == {i \in 1..Len(c) : c[i] = 46}
        isDigit(i) == 48 <= c[i] /\ c[i] <= 57
        dot == IF dots = {} THEN Len(c) + 1 ELSE CHOOSE i \in dots : TRUE
        fraction == SubSeq(c, dot + 1, Len(c))
        abs == DigitsValue(SubSeq(c, 1, dot - 1)) * Pow10(8)
               + DigitsValue(fraction) * Pow10(8 - Len(fraction))
    IN  IF \/ Cardinality(dots) > 1
           \/ \E i \in 1..Len(c) : i \notin dots /\ ~isDigit(i)
           \/ Len(c) - Cardinality(dots) = 0
        THEN [err |-> TRUE, val |-> 0]
        ELSE [err |-> FALSE,
              val |-> IF Negative(TextCodes(s)) THEN 0 - abs ELSE abs]

\* a conversion that reports no error and gives 0
AtoiLenient(s) == [err |-> FALSE, val |-> 0]

\* strconv.Atoi(s): a sign, then decimal digits only
Atoi(s) ==
    LET c == Unsigned(TextCodes(s))
    IN  IF c = <<>> \/ \E i \in 1..Len(c) : ~(48 <= c[i] /\ c[i] <= 57)
        THEN [err |-> TRUE, val |-> 0]
        ELSE [err |-> FALSE,
              val |-> IF Negative(TextCodes(s)) THEN 0 - DigitsValue(c)
                      ELSE DigitsValue(c)]

\* the keys of a map in the order json.Marshal writes them (sorted bytes)
RECURSIVE SortedKeys(_)
SortedKeys(keys) ==
    IF keys = {} THEN <<>>
    ELSE LET k == CHOOSE x \in keys :
                    \A y \in keys \ {x} : BytesLess(TextCodes(x), TextCodes(y))
         IN  <<k>> \o SortedKeys(keys \ {k})

\* "text"
Quoted(c) == <<34>> \o c \o <<34>>

\* the members "k":"v" of a JSON object, comma separated
RECURSIVE JsonMembers(_, _)
JsonMembers(m, keys) ==
    IF keys = <<>> THEN <<>>
    ELSE Quoted(TextCodes(Head(keys))) \o <<58>>
         \o Quoted(TextCodes(m[Head(keys)]))
         \o (IF Len(keys) > 1 THEN <<44>> ELSE <<>>)
         \o JsonMembers(m, Tail(keys))

\* json.Marshal of a map[string]string
JsonMap(m) == <<123>> \o JsonMembers(m, SortedKeys(DOMAIN m)) \o <<125>>

\* the bytes of a stored member: {"bids":{...},"asks":{...}}
JsonText(member) ==
    <<123>> \o Quoted(<<98, 105, 100, 115>>) \o <<58>> \o JsonMap(member.bids)
    \o <<44>> \o Quoted(<<97, 115, 107, 115>>) \o <<58>> \o JsonMap(member.asks)
    \o <<125>>

\* json.Unmarshal into an OrderBookInternal: LastUpdateID keeps its zero value
Unmarshal(member) == OrderBookInternal(0, member.bids, member.asks)

(***************************************************************************)
(* The read side: ZRANGE, OrderBookInternal.Format, LoadOrderBookInternal  *)
(***************************************************************************)
\* strconv.FormatInt(n, 10) of n >= 0
RECURSIVE FormatInt(_)
FormatInt(n) ==
    IF n < 10 THEN <<48 + n>>
    ELSE FormatInt(n \div 10) \o <<48 + (n % 10)>>

\* the digits of the fraction frac/10^width without the zeros at its end
RECURSIVE FractionDigits(_, _)
FractionDigits(frac, width) ==
    IF frac = 0 THEN <<>>
    ELSE LET unit == Pow10(width - 1)
         IN  <<48 + (frac \div unit)>> \o FractionDigits(frac % unit, width - 1)

\* json.Marshal of a float64 v >= 0 given in units of 10^-8 (a value the
\* encoder writes without an exponent): the shortest decimal that parses
\* back to v
FormatFloat(v) ==
    LET frac == v % Pow10(8)
    IN  FormatInt(v \div Pow10(8))
        \o (IF frac = 0 THEN <<>> ELSE <<46>> \o FractionDigits(frac, 8))

\* the fields of a models.Candle in the order of the struct
CandleFields ==
    <<"timeStart", "timeEnd", "time", "open", "close", "high", "low", "volume">>

\* "name":number for the field name of a stored candle
JsonNumber(member, name) ==
    Quoted(TextCodes(name)) \o <<58>>
    \o (IF name \in {"timeStart", "timeEnd", "time"}
        THEN FormatInt(member[name])
        ELSE FormatFloat(member[name]))

\* the fields "name":number of a stored candle, comma separated
RECURSIVE CandleMembers(_, _)
CandleMembers(member, names) ==
    IF names = <<>> THEN <<>>
    ELSE JsonNumber(member, Head(names))
         \o (IF Len(names) > 1 THEN <<44>> ELSE <<>>)
         \o CandleMembers(member, Tail(names))

\* the bytes of a stored candle: json.Marshal of a models.Candle
CandleText(member) == <<123>> \o CandleMembers(member, CandleFields) \o <<125>>

\* the bytes of a member of the sorted store
MemberText(member) ==
    IF "bids" \in DOMAIN member THEN JsonText(member) ELSE CandleText(member)

\* the order of a sorted set: by score, members of equal score by their bytes
ZLess(a, b) ==
    \/ a.Score < b.Score
    \/ a.Score = b.Score
         /\ BytesLess(MemberText(a.Member), MemberText(b.Member))

RECURSIVE ZSorted(_)
ZSorted(zset) ==
    IF zset = {} THEN <<>>
    ELSE LET e == CHOOSE x \in zset : \A y \in zset \ {x} : ZLess(x, y)
         IN  <<e>> \o ZSorted(zset \ {e})

\* ZRANGE key start stop WITHSCORES: indexes from 0, negative ones from the end
ZRangeWithScores(zset, start, stop) ==
    LET n == Cardinality(zset)
        from == IF start < 0 THEN (IF n + start < 0 THEN 0 ELSE n + start)
                ELSE start
        to == IF stop < 0 THEN n + stop
              ELSE IF stop >= n THEN n - 1 ELSE stop
    IN  SubSeq(ZSorted(zset), from + 1, to + 1)

\* models.EmptyOrderBook
EmptyOrderBook == [Asks |-> <<>>, Bids |-> <<>>]

\* the levels of a side whose price and size both parse (lines 490-505)
Parseable(side) ==
    {k \in DOMAIN side : ~ParseFloat(k).err /\ ~ParseFloat(side[k]).err}

AskBid(side, k) ==
    [Size |-> ParseFloat(side[k]).val, Price |-> ParseFloat(k).val]

\* the orders sort.Slice can leave the levels in: ascending price; levels of
\* equal price (two texts of one number) in either order
SortedByPrice(side) ==
    LET keys == Parseable(side)
        n == Cardinality(keys)
    IN  {[i \in 1..n |-> AskBid(side, q[i])] :
            q \in {f \in [1..n -> keys] :
                     /\ \A i, j \in 1..n : i # j => f[i] # f[j]
                     /\ \A i \in 1..(n - 1) :
                          ParseFloat(f[i]).val <= ParseFloat(f[i + 1]).val}}

\* the depth of one side (lines 533-541)
SideDepth(levels, depth) == IF depth < Len(levels) THEN depth ELSE Len(levels)

\* OrderBookInternal.Format(depth): every value the call can return; a
\* negative depth makes the slice expressions panic
FormatTakeLowestBids(obi, depth) ==
    IF depth < 0 THEN {[panic |-> TRUE, Asks |-> <<>>, Bids |-> <<>>]}
    ELSE {[panic |-> FALSE,
           Asks |-> SubSeq(asks, 1, SideDepth(asks, depth)),
           Bids |-> SubSeq(bids, 1, SideDepth(bids, depth))] :
             asks \in SortedByPrice(obi.Asks), bids \in SortedByPrice(obi.Bids)}

Format(obi, depth) ==
    IF depth < 0 THEN {[panic |-> TRUE, Asks |-> <<>>, Bids |-> <<>>]}
    ELSE {[panic |-> FALSE,
           Asks |-> SubSeq(asks, 1, SideDepth(asks, depth)),
           Bids |-> SubSeq(bids, Len(bids) - SideDepth(bids, depth) + 1,
                           Len(bids))] :
             asks \in SortedByPrice(obi.Asks), bids \in SortedByPrice(obi.Bids)}

\* a LoadOrderBookInternal that reports a key without members as an error
LoadOrderBookInternalEmptyErr(zset, depth, rangeErr) ==
    IF rangeErr \/ zset = {}
    THEN {[err |-> TRUE, panic |-> FALSE, Asks |-> <<>>, Bids |-> <<>>]}
    ELSE {[err |-> FALSE, panic |-> f.panic, Asks |-> f.Asks, Bids |-> f.Bids] :
            f \in Format(Unmarshal(ZRangeWithScores(zset, -1, -1)[1].Member),
                         depth)}

\* Client.LoadOrderBookInternal on the content zset of orderBook:<symbol>,
\* the range query failing or not: every value the call can return
LoadOrderBookInternal(zset, depth, rangeErr) ==
    LET result == ZRangeWithScores(zset, -1, -1)
    IN  IF rangeErr
        THEN {[err |-> TRUE, panic |-> FALSE, Asks |-> <<>>, Bids |-> <<>>]}
        ELSE IF Len(result) = 0
        THEN {[err |-> FALSE, panic |-> FALSE,
               Asks |-> EmptyOrderBook.Asks, Bids |-> EmptyOrderBook.Bids]}
        ELSE {[err |-> FALSE, panic |-> f.panic, Asks |-> f.Asks,
               Bids |-> f.Bids] :
                 f \in Format(Unmarshal(result[1].Member), depth)}

(***************************************************************************)
(* models.Candle and the candlestick writers of the store client           *)
(***************************************************************************)
Candle(timeStart, timeEnd, time, open, close, high, low, volume) ==
    [TimeStart |-> timeStart, TimeEnd |-> timeEnd, Time |-> time,
     Open |-> open, Close |-> close, High |-> high, Low |-> low,
     Volume |-> volume]

\* mustParseFloat64: the error of ParseFloat is dropped, the value is then 0
mustParseFloat64(s) == ParseFloat(s).val

\* models.CandleFromEvent: the times of the event are milliseconds
CandleFromEvent(event) ==
    Candle(event.Kline.StartTime \div 1000, event.Kline.EndTime \div 1000,
           event.Time \div 1000,
           mustParseFloat64(event.Kline.Open),
           mustParseFloat64(event.Kline.Close),
           mustParseFloat64(event.Kline.High),
           mustParseFloat64(event.Kline.Low),
           mustParseFloat64(event.Kline.Volume))

\* models.CandleFromBinanceAPI at time.Now().Unix() = t: the times of the
\* kline are milliseconds
CandleFromBinanceAPI(candlestick, t) ==
    Candle(candlestick.OpenTime \div 1000, candlestick.CloseTime \div 1000, t,
           mustParseFloat64(candlestick.Open),
           mustParseFloat64(candlestick.Close),
           mustParseFloat64(candlestick.High),
           mustParseFloat64(candlestick.Low),
           mustParseFloat64(candlestick.Volume))

\* models.CandleFromBittrexAPI at time.Now().Unix() = t: TimeStamp is a time
\* in seconds, the prices are decimals
CandleFromBittrexAPI(candlestick, t) ==
    Candle(candlestick.TimeStamp, candlestick.TimeStamp, t,
           ParseFloat(candlestick.Open).val, ParseFloat(candlestick.Close).val,
           ParseFloat(candlestick.High).val, ParseFloat(candlestick.Low).val,
           ParseFloat(candlestick.Volume).val)

\* the candle of a Poloniex chart entry at time.Now().Unix() = t: Date is the
\* bucket open time in seconds, the prices are numbers
CandleFromPoloniexAPI(candlestick, t) ==
    Candle(candlestick.Date, candlestick.Date, t,
           candlestick.Open, candlestick.Close, candlestick.High,
           candlestick.Low, candlestick.Volume)

\* json.Marshal of a Candle, and json.Unmarshal into one
MarshalCandle(c) ==
    [timeStart |-> c.TimeStart, timeEnd |-> c.TimeEnd, time |-> c.Time,
     open |-> c.Open, close |-> c.Close, high |-> c.High, low |-> c.Low,
     volume |-> c.Volume]

UnmarshalCandle(m) ==
    Candle(m.timeStart, m.timeEnd, m.time, m.open, m.close, m.high, m.low,
           m.volume)

\* models.BittrexIntervalToBinance
BittrexIntervalToBinance(v) ==
    CASE v = "oneMin" -> "1m"
      [] v = "fiveMin" -> "5m"
      [] v = "thirtyMin" -> "30m"
      [] v = "hour" -> "1h"
      [] v = "day" -> "1d"
      [] OTHER -> ""

\* models.BittrexSymbolToBinance
BittrexSymbolToBinance(symbol) ==
    CASE symbol = "BTC-LTC" -> "LTCBTC"
      [] symbol = "BTC-ETH" -> "ETHBTC"
      [] symbol = "BTC-DASH" -> "DASHBTC"
      [] symbol = "BTC-ZEC" -> "ZECBTC"
      [] symbol = "BTC-BCH" -> "BCHABCBTC"
      [] symbol = "BTC-BSV" -> "BCHSVBTC"
      [] symbol = "ETH-LTC" -> "LTCETH"
      [] symbol = "ETH-DASH" -> "DASHETH"
      [] symbol = "ETH-ZEC" -> "ZECETH"
      [] symbol = "USD-BTC" -> "BTCUSDT"
      [] symbol = "USD-LTC" -> "LTCUSDT"
      [] symbol = "USD-ETH" -> "ETHUSDT"
      [] symbol = "USD-BCH" -> "BCHABCUSDT"
      [] symbol = "USD-BSV" -> "BCHSVUSDT"
      [] OTHER -> ""

\* the Poloniex translations (symbol list of models.PoloniexSymbols, chart
\* periods in seconds)
PoloniexSymbolToBinance(symbol) ==
    CASE symbol = "btc-ltc" -> "LTCBTC"
      [] symbol = "btc-eth" -> "ETHBTC"
      [] OTHER -> ""

PoloniexIntervalToBinance(interval) ==
    CASE interval = 300 -> "5m"
      [] interval = 900 -> "15m"
      [] interval = 1800 -> "30m"
      [] interval = 7200 -> "2h"
      [] interval = 14400 -> "4h"
      [] interval = 86400 -> "1d"
      [] OTHER -> ""

\* formatKey(exchange, "candlestick", symbol, interval)
CandlestickKey(exchange, symbol, interval) ==
    formatKey(formatKey(formatKey(exchange, "candlestick"), symbol), interval)

\* Client.storeCandlestick on the content zset of the key: purge the score
\* openTime, then add the candle at that score
storeCandlestickNoPurge(zset, openTime, candlestick, purgeErr, storeErr) ==
    IF storeErr
    THEN [zset |-> zset, err |-> TRUE, purge |-> "none", add |-> "err"]
    ELSE [zset |-> store(zset, openTime, candlestick), err |-> FALSE,
          purge |-> "none", add |-> "ok"]

storeCandlestick(zset, openTime, candlestick, purgeErr, storeErr) ==
    IF purgeErr
    THEN [zset |-> zset, err |-> TRUE, purge |-> "err", add |-> "none"]
    ELSE LET purged == purge(zset, openTime, openTime)
         IN IF storeErr
            THEN [zset |-> purged, err |-> TRUE, purge |-> "ok", add |-> "err"]
            ELSE [zset |-> store(purged, openTime, candlestick),
                  err |-> FALSE, purge |-> "ok", add |-> "ok"]

\* Client.StoreCandlestickBinance
StoreCandlestickBinance(zset, candlestick, purgeErr, storeErr) ==
    LET candle == CandleFromEvent(candlestick)
    IN  storeCandlestick(zset, candle.TimeStart, MarshalCandle(candle),
                         purgeErr, storeErr)

\* Client.StoreCandlestickBinanceAPI
StoreCandlestickBinanceAPI(zset, candlestick, t, purgeErr, storeErr) ==
    LET candle == CandleFromBinanceAPI(candlestick, t)
    IN  storeCandlestick(zset, candle.TimeStart, MarshalCandle(candle),
                         purgeErr, storeErr)

\* Client.StoreCandlestickBittrexAPI
StoreCandlestickBittrexAPI(zset, candlestick, t, purgeErr, storeErr) ==
    LET candle == CandleFromBittrexAPI(candlestick, t)
    IN  storeCandlestick(zset, candle.TimeStart, MarshalCandle(candle),
                         purgeErr, storeErr)

\* Client.StoreCandlestickPoloniexAPI
StoreCandlestickPoloniexAPI(zset, candlestick, t, purgeErr, storeErr) ==
    LET candle == CandleFromPoloniexAPI(candlestick, t)
    IN  storeCandlestick(zset, candle.TimeStart, MarshalCandle(candle),
                         purgeErr, storeErr)

(***************************************************************************)
(* The candlestick reader: Client.LoadCandlestickListAll                   *)
(***************************************************************************)
\* models.BinanceCandlestickIntervalList
BinanceCandlestickIntervalList ==
    <<"1m", "3m", "5m", "15m", "30m", "1h", "2h", "4h", "6h", "8h", "12h",
      "1d", "3d", "1w", "1M">>

\* a validation that lets every interval but the empty one through
IsValidIntervalNonEmpty(s) == s # ""

\* models.IsValidInterval
IsValidInterval(s) ==
    \E i \in 1..Len(BinanceCandlestickIntervalList) :
        BinanceCandlestickIntervalList[i] = s

\* the constants day, threeDays and week of the store client, in seconds
day == 24 * 3600
threeDays == 3 * day
week == 7 * day

\* time.ParseDuration(interval) in seconds; "1d", "3d", "1w" and "1M" are
\* not durations, "1s" and "90m" are durations outside the canonical list
ParseDuration(interval) ==
    CASE interval = "1m" -> [err |-> FALSE, val |-> 60]
      [] interval = "3m" -> [err |-> FALSE, val |-> 3 * 60]
      [] interval = "5m" -> [err |-> FALSE, val |-> 5 * 60]
      [] interval = "15m" -> [err |-> FALSE, val |-> 15 * 60]
      [] interval = "30m" -> [err |-> FALSE, val |-> 30 * 60]
      [] interval = "1h" -> [err |-> FALSE, val |-> 3600]
      [] interval = "2h" -> [err |-> FALSE, val |-> 2 * 3600]
      [] interval = "4h" -> [err |-> FALSE, val |-> 4 * 3600]
      [] interval = "6h" -> [err |-> FALSE, val |-> 6 * 3600]
      [] interval = "8h" -> [err |-> FALSE, val |-> 8 * 3600]
      [] interval = "12h" -> [err |-> FALSE, val |-> 12 * 3600]
      [] interval = "1s" -> [err |-> FALSE, val |-> 1]
      [] interval = "90m" -> [err |-> FALSE, val |-> 90 * 60]
      [] OTHER -> [err |-> TRUE, val |-> 0]

\* days from the zero time (January 1 of year 1, UTC) to the Unix epoch
unixToInternalDays == 719162

\* time.Unix(t, 0).Truncate(d).Unix(): t rounded down to a multiple of d
\* seconds since the zero time of time.Time (d divides a day or is a whole
\* number of days)
Truncate(t, d) ==
    LET sinceZero == IF d % day = 0
                     THEN (unixToInternalDays % (d \div day)) * day
                     ELSE 0
    IN  t - ((t + sinceZero) % d)

\* lines 335-356: the window of the range scans; time.Date with a nil
\* location panics
TimeStartRounded(interval, timeStart) ==
    CASE interval = "1d" ->
           [panic |-> FALSE, err |-> FALSE, val |-> Truncate(timeStart, day)]
      [] interval = "3d" ->
           [panic |-> FALSE, err |-> FALSE,
            val |-> Truncate(timeStart, threeDays)]
      [] interval = "1w" ->
           [panic |-> FALSE, err |-> FALSE, val |-> Truncate(timeStart, week)]
      [] interval = "1M" -> [panic |-> TRUE, err |-> FALSE, val |-> 0]
      [] OTHER ->
           IF ParseDuration(interval).err
           THEN [panic |-> FALSE, err |-> TRUE, val |-> 0]
           ELSE [panic |-> FALSE, err |-> FALSE,
                 val |-> Truncate(timeStart, ParseDuration(interval).val)]

\* ZRANGEBYSCORE key min max WITHSCORES: ascending, both ends inclusive
ZRangeByScoreWithScores(zset, min, max) ==
    LET all == ZSorted(zset)
    IN  SelectSeq(all, LAMBDA e : min <= e.Score /\ e.Score <= max)

\* the state of the merge: candleList, counts and indexes
NoMerge ==
    [candleList |-> <<>>, counts |-> [t \in {} |-> 0],
     indexes |-> [t \in {} |-> 0]]

\* counts[ob.TimeStart]++
Count(m, ob) ==
    Put(m.counts, ob.TimeStart,
        IF ob.TimeStart \in DOMAIN m.counts THEN m.counts[ob.TimeStart] + 1
        ELSE 1)

\* indexes[ob.TimeStart] = len(candleList); candleList = append(candleList, ob)
Append1(m, ob) ==
    [candleList |-> Append(m.candleList, ob),
     counts |-> Count(m, ob),
     indexes |-> Put(m.indexes, ob.TimeStart, Len(m.candleList))]

\* lines 389-403: one iteration of the loop over resultBinance
MergeBinance(m, ob) == Append1(m, ob)

\* the loop over resultBittrex without the update of High
MergeBittrexKeepHigh(m, ob) ==
    IF ob.TimeStart \notin DOMAIN m.indexes
    THEN Append1(m, ob)
    ELSE LET r == m.indexes[ob.TimeStart] + 1
             old == m.candleList[r]
         IN  [m EXCEPT
                !.counts = Count(m, ob),
                !.candleList[r] =
                   [old EXCEPT
                      !.Low = IF ob.Low < old.Low THEN ob.Low ELSE old.Low,
                      !.Volume = old.Volume + ob.Volume,
                      !.Open = (old.Open + ob.Open) \div 2,
                      !.Close = (old.Close + ob.Close) \div 2]]

\* lines 405-436: one iteration of the loop over resultBittrex
MergeBittrex(m, ob) ==
    IF ob.TimeStart \notin DOMAIN m.indexes
    THEN Append1(m, ob)
    ELSE LET r == m.indexes[ob.TimeStart] + 1
             old == m.candleList[r]
         IN  [m EXCEPT
                !.counts = Count(m, ob),
                !.candleList[r] =
                   [old EXCEPT
                      !.High = IF ob.High > old.High THEN ob.High ELSE old.High,
                      !.Low = IF ob.Low < old.Low THEN ob.Low ELSE old.Low,
                      !.Volume = old.Volume + ob.Volume,
                      !.Open = (old.Open + ob.Open) \div 2,
                      !.Close = (old.Close + ob.Close) \div 2]]

\* the loop over resultPoloniex with the comparison of Low of the loop over
\* resultBittrex
MergePoloniexMinLow(m, ob) ==
    IF ob.TimeStart \notin DOMAIN m.indexes
    THEN Append1(m, ob)
    ELSE LET r == m.indexes[ob.TimeStart] + 1
             old == m.candleList[r]
             count == Count(m, ob)[ob.TimeStart]
         IN  [m EXCEPT
                !.counts = Count(m, ob),
                !.candleList[r] =
                   [old EXCEPT
                      !.High = IF ob.High > old.High THEN ob.High ELSE old.High,
                      !.Low = IF ob.Low < old.Low THEN ob.Low ELSE old.Low,
                      !.Volume = old.Volume + ob.Volume,
                      !.Open = IF count = 1 THEN (old.Open + ob.Open) \div 2
                               ELSE IF count = 2
                               THEN (old.Open * 2 + ob.Open) \div 3
                               ELSE old.Open,
                      !.Close = IF count = 1 THEN (old.Close + ob.Close) \div 2
                                ELSE IF count = 2
                                THEN (old.Close * 2 + ob.Close) \div 3
                                ELSE old.Close]]

\* lines 438-476: one iteration of the loop over resultPoloniex
MergePoloniex(m, ob) ==
    IF ob.TimeStart \notin DOMAIN m.indexes
    THEN Append1(m, ob)
    ELSE LET r == m.indexes[ob.TimeStart] + 1
             old == m.candleList[r]
             count == Count(m, ob)[ob.TimeStart]
         IN  [m EXCEPT
                !.counts = Count(m, ob),
                !.candleList[r] =
                   [old EXCEPT
                      !.High = IF ob.High > old.High THEN ob.High ELSE old.High,
                      !.Low = IF ob.Low > old.Low THEN ob.Low ELSE old.Low,
                      !.Volume = old.Volume + ob.Volume,
                      !.Open = IF count = 1 THEN (old.Open + ob.Open) \div 2
                               ELSE IF count = 2
                               THEN (old.Open * 2 + ob.Open) \div 3
                               ELSE old.Open,
                      !.Close = IF count = 1 THEN (old.Close + ob.Close) \div 2
                                ELSE IF count = 2
                                THEN (old.Close * 2 + ob.Close) \div 3
                                ELSE old.Close]]

\* the loops over resultBinance, resultBittrex and resultPoloniex
RECURSIVE MergeAll(_, _, _)
MergeAll(m, result, exchange) ==
    IF result = <<>> THEN m
    ELSE LET ob == UnmarshalCandle(Head(result).Member)
             next == CASE exchange = "binance" -> MergeBinance(m, ob)
                       [] exchange = "bittrex" -> MergeBittrex(m, ob)
                       [] exchange = "poloniex" -> MergePoloniex(m, ob)
         IN  MergeAll(next, Tail(result), exchange)

\* Client.LoadCandlestickListAll over the contents of the three keys;
\* rangeErr: one of the range scans returns an error; read: the range scans
\* were made
LoadCandlestickListAll(binance, bittrex, poloniex, interval, timeStart, timeEnd, rangeErr) ==
    LET rounded == TimeStartRounded(interval, timeStart)
        min == rounded.val
        max == timeEnd
        scanned == [timeStart |-> timeStart, timeEnd |-> timeEnd,
                    min |-> min, max |-> max]
        none == [panic |-> FALSE, err |-> FALSE, read |-> FALSE,
                 candles |-> <<>>, counts |-> NoMerge.counts,
                 window |-> scanned]
    IN  IF rounded.panic THEN [none EXCEPT !.panic = TRUE]
        ELSE IF rounded.err THEN [none EXCEPT !.err = TRUE]
        ELSE IF rangeErr THEN [none EXCEPT !.err = TRUE, !.read = TRUE]
        ELSE LET m1 == MergeAll(NoMerge,
                          ZRangeByScoreWithScores(binance, min, max),
                          "binance")
                 m2 == MergeAll(m1,
                          ZRangeByScoreWithScores(bittrex, min, max),
                          "bittrex")
                 m3 == MergeAll(m2,
                          ZRangeByScoreWithScores(poloniex, min, max),
                          "poloniex")
             IN  [none EXCEPT !.read = TRUE, !.candles = m3.candleList,
                              !.counts = m3.counts]

(***************************************************************************)
(* Inputs: snapshots of the depth endpoint and events of the diff stream   *)
(***************************************************************************)
Levels == [Price : Prices, Quantity : Sizes]

LevelSeqs(n) == UNION {[1..k -> Levels] : k \in 0..n}

NoEvent == [UpdateID |-> 0, Bids |-> <<>>, Asks |-> <<>>]

\* Spec: events of at most one level, snapshots of two shapes
Events ==
    {[UpdateID |-> u, Bids |-> x[1], Asks |-> x[2]] :
        u \in 1..MaxU,
        x \in {<< <<>>, <<>> >>,
               << <<[Price |-> "0.01", Quantity |-> "2"]>>, <<>> >>,
               << <<[Price |-> "0.01", Quantity |-> zero]>>, <<>> >>,
               << <<>>, <<[Price |-> "0.02", Quantity |-> "0"]>> >>}}

SnapshotData ==
    {[LastUpdateID |-> id, Bids |-> x[1], Asks |-> x[2]] :
        id \in 1..(MaxU - 1),
        x \in {<< <<>>, <<>> >>,
               << << <<"0.01", "2">> >>, << <<"0.02", "2">> >> >>}}

\* SpecApply: every event of at most MaxLevels levels over Prices and Sizes,
\* snapshots with up to two levels a side
AllEvents ==
    {e \in [UpdateID : 1..MaxU,
            Bids : LevelSeqs(MaxLevels), Asks : LevelSeqs(MaxLevels)] :
        Len(e.Bids) + Len(e.Asks) <= MaxLevels}

SnapshotSides ==
    {<<>>, << <<"0.01", "2">> >>, << <<"0.01", "0">>, <<"0.02", "2">> >>}

AllSnapshotData ==
    {[LastUpdateID |-> id, Bids |-> b, Asks |-> a] :
        id \in 1..(MaxU - 1), b \in SnapshotSides, a \in SnapshotSides}

\* the open times (Unix seconds) of the 30 minute buckets of the model
Buckets == {1699200, 1701000}

\* length of a 30 minute bucket in seconds
BucketSeconds == 30 * 60

\* open, close, high, low and volume of a candle as the exchange sends them
KlinePayloads ==
    {[Open |-> "0.06", Close |-> "0.12", High |-> "0.12", Low |-> "0.06",
      Volume |-> "0.06"],
     [Open |-> "0.12", Close |-> "0.18", High |-> "0.18", Low |-> "0.12",
      Volume |-> "0.12"],
     [Open |-> "0.18", Close |-> "0.06", High |-> "0.18", Low |-> "0.06",
      Volume |-> "0.18"]}

\* binance.WsKlineEvent: times in milliseconds
WsKlineEvents ==
    {[Time |-> b * 1000,
      Kline |-> [StartTime |-> b * 1000,
                 EndTime |-> (b + BucketSeconds) * 1000 - 1,
                 Open |-> k.Open, Close |-> k.Close, High |-> k.High,
                 Low |-> k.Low, Volume |-> k.Volume]] :
        b \in Buckets, k \in KlinePayloads}

\* binance.Kline of the klines endpoint: times in milliseconds
Klines ==
    {[OpenTime |-> b * 1000, CloseTime |-> (b + BucketSeconds) * 1000 - 1,
      Open |-> k.Open, Close |-> k.Close, High |-> k.High, Low |-> k.Low,
      Volume |-> k.Volume] :
        b \in Buckets, k \in KlinePayloads}

\* bittrex.Candle
BittrexCandles ==
    {[TimeStamp |-> b, Open |-> k.Open, Close |-> k.Close, High |-> k.High,
      Low |-> k.Low, Volume |-> k.Volume] :
        b \in Buckets, k \in KlinePayloads}

\* poloniex.CandleStick
PoloniexCandles ==
    {[Date |-> b, Open |-> ParseFloat(k.Open).val,
      Close |-> ParseFloat(k.Close).val, High |-> ParseFloat(k.High).val,
      Low |-> ParseFloat(k.Low).val, Volume |-> ParseFloat(k.Volume).val] :
        b \in Buckets, k \in KlinePayloads}

(***************************************************************************)
(* State                                                                   *)
(***************************************************************************)
VARIABLES
    pc,       \* pc[s]: where the goroutine running SubscribeOrderBook(s) is
    ret,      \* ret[s]: the error SubscribeOrderBook(s) returned, or "running"
    stream,   \* stream[s]: the depth stream of s is open
    cache,    \* w.orderBookCache; a missing entry reads as NoOrderBook
    present,  \* the symbols that have an entry in w.orderBookCache
    db,       \* the sorted store: key -> set of [Member, Score]
    now,      \* time.Now().Unix()
    sess,     \* history: per symbol, facts about the current stream session
    op,       \* history: the call of updateOrderBook made by the last step
    calls,    \* history: the number of depth events and candles handled
    api,      \* history: the request the API served in the last step
    wr,       \* history: the candle write made by the last step
    writing,  \* writing[g]: the call of storeCandlestick the goroutine g is in
    rl,       \* the /reload request being served and the goroutines it started
    stop,     \* the call of Worker.StopAll and the subscriptions it stops
    task,     \* task[x]: where SubscribeCandlestickAll's goroutine of x is
    main,     \* the goroutine of main: which main runs and where it is
    feed,     \* feed[s]: update ids the exchange emitted to no open stream
    reader    \* a caller of Worker.GetOrderBook and the book it was given

vars ==
    <<pc, ret, stream, cache, present, db, now, sess, op, calls, api, wr,
      writing, rl, stop, task, main, feed, reader>>

Keys == {formatKey("orderBook", s) : s \in Symbols}

NoSession ==
    [S |-> 0,           \* lastUpdateId of the installed snapshot
     status |-> 0,      \* status of the response the snapshot was decoded from
     maxU |-> 0,        \* greatest u applied since the snapshot, 0 if none
     failed |-> FALSE]  \* a persist failed since the snapshot

NoOp ==
    [sym |-> "", event |-> NoEvent, pre |-> NoOrderBook, post |-> NoOrderBook,
     S |-> 0, maxU |-> 0, afterFail |-> FALSE, applied |-> FALSE,
     purge |-> "none", add |-> "none", err |-> FALSE,
     t1 |-> 0, t2 |-> 0, zpre |-> {}, zpost |-> {}]

\* no candle was written by the last step
NoWrite ==
    [key |-> "", candle |-> Candle(0, 0, 0, 0, 0, 0, 0, 0), err |-> FALSE,
     purge |-> "none", add |-> "none", zpre |-> {}, zpost |-> {}]

\* no request was served by the last step
\* the goroutines that write the Binance candles of a series: the handler of
\* the kline stream and initCandlesticks started by Reload
Writers == {"stream", "reload"}

\* no goroutine is inside storeCandlestick
NoWriting ==
    [g \in Writers |-> [pc |-> "idle", key |-> "", openTime |-> 0,
                        candlestick |-> <<>>]]

\* the workers of the API, in the order handleReloadRequest reloads them
Workers == <<"binance", "bittrex", "poloniex">>

\* the symbol list each worker was started with: the first two symbols of
\* models.BinanceSymbols, the first of models.BittrexSymbols and of
\* models.PoloniexSymbols
WorkerSymbols(x) ==
    CASE x = "binance" -> <<"LTCBTC", "ETHBTC">>
      [] x = "bittrex" -> <<"BTC-LTC">>
      [] x = "poloniex" -> <<"btc-ltc">>

\* the interval list Reload of each worker ranges over: the 30 minutes of
\* models.BinanceCandlestickIntervalList, models.BittrexCandlestickIntervalList
\* and models.PoloniexCandlestickIntervalList
WorkerIntervals(x) ==
    CASE x = "binance" -> <<"30m">>
      [] x = "bittrex" -> <<"thirtyMin">>
      [] x = "poloniex" -> <<1800>>

\* the iterations of the inner loop of Reload, in order: iteration k is
\* symbol SymbolIndex(x, k) with interval IntervalIndex(x, k)
Iterations(x) == 1..(Len(WorkerSymbols(x)) * Len(WorkerIntervals(x)))
SymbolIndex(x, k) == ((k - 1) \div Len(WorkerIntervals(x))) + 1
IntervalIndex(x, k) == ((k - 1) % Len(WorkerIntervals(x))) + 1

\* a goroutine of Reload that was not started
NoGoroutine == [st |-> "none", symbol |-> "", interval |-> ""]

\* no /reload request was accepted
NoReload ==
    [pc |-> "idle",       \* the call the handler of the accepted request is in
     started |-> FALSE,   \* a request passed the token check
     token |-> "",        \* the token of that request
     query |-> [p \in {} |-> <<>>],
     n |-> [x \in {"binance", "bittrex", "poloniex"} |-> 0],
                          \* n[x]: iterations the loop of Reload of x has made
     go |-> [x \in {"binance", "bittrex", "poloniex"} |->
               [k \in Iterations(x) |-> NoGoroutine]],
                          \* go[x][k]: the goroutine iteration k started
     logged |-> {}]       \* the workers that logged "cache reloaded"

\* StopAll was not called and no subscription is registered
NoStop ==
    [pc |-> "idle",        \* the statement StopAll is at
     i |-> 1,              \* the index of the loop StopAll is in
     subs |-> <<>>,        \* w.stops and w.dones: the state of each stream
     receiver |-> FALSE]   \* a goroutine of the program receives from StopC

\* no goroutine of SubscribeCandlestickAll runs: pc is the call the
\* goroutine of the worker is in, failure the error its last step met
NoTask ==
    [x \in {"binance", "bittrex", "poloniex"} |->
       [pc |-> "none", failure |-> ""]]

\* main has not been entered.  program is the main that runs: "worker" is
\* the main of main.go:128-167, which starts the Binance worker and then the
\* API server; "orderbook" is the main of part_008, which starts the API
\* server and then constructs the order-book worker.
NoMain ==
    [program |-> "none",
     pc |-> "FromFile",     \* the call main is at; "exited" after a Fatalf
     fatal |-> "",          \* the message of the Fatalf that ended the process
     serving |-> "none",    \* the API server: none, started (its goroutine), listening
     workers |-> FALSE,     \* the exchange worker was started
     pinged |-> FALSE]      \* database.Check() succeeded

\* the exchange emitted nothing while a stream was closed
NoFeed == [s \in {"LTCBTC", "ETHBTC"} |-> {}]

\* nobody called Worker.GetOrderBook
NoReader ==
    [sym |-> "",            \* the symbol asked
     ok |-> FALSE,          \* the second result of GetOrderBook
     shared |-> FALSE,      \* the maps of the book returned are the maps of
                            \* the cache entry of sym
     book |-> NoOrderBook]  \* the book as it was when GetOrderBook returned

NoWindow == [timeStart |-> 0, timeEnd |-> 0, min |-> 0, max |-> 0]

NoApi ==
    [path |-> "", query |-> [p \in {} |-> <<>>], status |-> 0,
     panic |-> FALSE, read |-> FALSE, failed |-> FALSE,
     body |-> [none |-> TRUE], window |-> NoWindow]

\* The store outlives the process: at start a key holds a book that an
\* earlier run stored TickStep seconds before StartTime.
StoredAtStart ==
    {[Member |-> Marshal(OrderBookInternal(0, Put(EmptyMap, "0.01", "2"),
                                           EmptyMap)),
      Score |-> StartTime - TickStep]}

Init ==
    /\ pc = [s \in Symbols |-> "getOrderBook"]
    /\ ret = [s \in Symbols |-> "running"]
    /\ stream = [s \in Symbols |-> FALSE]
    /\ cache = [s \in Symbols |-> NoOrderBook]
    /\ present = {}
    /\ db = [k \in Keys |-> StoredAtStart]
    /\ now = StartTime
    /\ sess = [s \in Symbols |-> NoSession]
    /\ op = NoOp
    /\ calls = 0
    /\ api = NoApi
    /\ wr = NoWrite
    /\ writing = NoWriting
    /\ rl = NoReload
    /\ stop = NoStop
    /\ task = NoTask
    /\ main = NoMain
    /\ feed = NoFeed
    /\ reader = NoReader

(***************************************************************************)
(* SubscribeOrderBook(s), one action per blocking step                     *)
(***************************************************************************)
\* lines 232-241: fetch the snapshot and install it, or return the error
GetOrderBook(s, snapshots) ==
    /\ pc[s] = "getOrderBook"
    /\ \E resp \in Responses(snapshots) :
         LET r == getOrderBook(resp) IN
         IF r.err # "nil"
         THEN /\ pc' = [pc EXCEPT ![s] = "returned"]
              /\ ret' = [ret EXCEPT ![s] = "could not get order book"]
              /\ UNCHANGED <<cache, present, sess>>
         ELSE /\ pc' = [pc EXCEPT ![s] = "WsDepthServe"]
              /\ cache' = [cache EXCEPT ![s] = r.response]
              /\ present' = present \cup {s}
              /\ sess' = [sess EXCEPT ![s] =
                            [S |-> Decode(resp.body).data.LastUpdateID,
                             status |-> resp.StatusCode,
                             maxU |-> 0, failed |-> FALSE]]
              /\ UNCHANGED ret
    /\ op' = NoOp
    /\ api' = NoApi
    /\ wr' = NoWrite
    /\ UNCHANGED <<writing, rl, stop, task, main, feed, reader>>
    /\ UNCHANGED <<stream, db, now, calls>>

\* line 251: open the depth stream, or return the error
WsDepthServe(s) ==
    /\ pc[s] = "WsDepthServe"
    /\ \E ok \in BOOLEAN :
         IF ok
         THEN /\ pc' = [pc EXCEPT ![s] = "doneC"]
              /\ stream' = [stream EXCEPT ![s] = TRUE]
              /\ UNCHANGED ret
         ELSE /\ pc' = [pc EXCEPT ![s] = "returned"]
              /\ ret' = [ret EXCEPT ![s] = "serve"]
              /\ UNCHANGED stream
    /\ op' = NoOp
    /\ api' = NoApi
    /\ wr' = NoWrite
    /\ UNCHANGED <<writing, rl, stop, task, main, feed, reader>>
    /\ UNCHANGED <<cache, present, db, now, sess, calls>>

\* lines 244-248: the stream calls the handler with an event; the handler
\* runs updateOrderBook under the cache mutex and logs its error.  The
\* clock advances by one of delays between the two readings of time.Now().
wsDiffDepthsHandler(s, events, budget, delays) ==
    /\ stream[s]
    /\ calls < budget
    /\ \E event \in events, purgeErr \in BOOLEAN, storeErr \in BOOLEAN,
          t2 \in {now + d : d \in delays} :
         /\ t2 <= MaxNow
         /\ LET key == formatKey("orderBook", s)
                r == updateOrderBook(cache[s], db[key], event,
                                     now, t2, purgeErr, storeErr)
                t == IF r.add = "none" THEN now ELSE t2
            IN /\ cache' = [cache EXCEPT ![s] = r.orderBook]
               /\ db' = [db EXCEPT ![key] = r.zset]
               /\ now' = t
               /\ op' = [sym |-> s, event |-> event,
                         pre |-> cache[s], post |-> r.orderBook,
                         S |-> sess[s].S, maxU |-> sess[s].maxU,
                         afterFail |-> sess[s].failed,
                         applied |-> r.applied,
                         purge |-> r.purge, add |-> r.add, err |-> r.err,
                         t1 |-> now, t2 |-> t,
                         zpre |-> db[key], zpost |-> r.zset]
               /\ sess' = [sess EXCEPT
                             ![s].maxU = IF r.applied /\ event.UpdateID > @
                                         THEN event.UpdateID ELSE @,
                             ![s].failed = @ \/ r.purge = "err" \/ r.add = "err"]
    /\ calls' = calls + 1
    /\ api' = NoApi
    /\ wr' = NoWrite
    /\ UNCHANGED <<writing, rl, stop, task, main, feed, reader>>
    /\ UNCHANGED <<pc, ret, stream, present>>

\* line 256: the stream signals done
StreamDone(s) ==
    /\ pc[s] = "doneC"
    /\ stream[s]
    /\ pc' = [pc EXCEPT ![s] = "Tick"]
    /\ stream' = [stream EXCEPT ![s] = FALSE]
    /\ op' = NoOp
    /\ api' = NoApi
    /\ wr' = NoWrite
    /\ UNCHANGED <<writing, rl, stop, task, main, feed, reader>>
    /\ UNCHANGED <<ret, cache, present, db, now, sess, calls>>

\* line 230: <-time.Tick(w.requestInterval), then the next iteration
Reconnect(s) ==
    /\ pc[s] = "Tick"
    /\ pc' = [pc EXCEPT ![s] = "getOrderBook"]
    /\ op' = NoOp
    /\ api' = NoApi
    /\ wr' = NoWrite
    /\ UNCHANGED <<writing, rl, stop, task, main, feed, reader>>
    /\ UNCHANGED <<ret, stream, cache, present, db, now, sess, calls>>

\* the clock advances
Tick ==
    /\ now + TickStep <= MaxNow
    /\ now' = now + TickStep
    /\ op' = NoOp
    /\ api' = NoApi
    /\ wr' = NoWrite
    /\ UNCHANGED <<writing, rl, stop, task, main, feed, reader>>
    /\ UNCHANGED <<pc, ret, stream, cache, present, db, sess, calls>>

\* the greatest update id the exchange has given out for the symbol s: in
\* the snapshot of the session, in an event of the session's stream or in an
\* event no stream carried
LastEmitted(s) ==
    LET ids == feed[s] \cup {sess[s].S, sess[s].maxU}
    IN  CHOOSE u \in ids : \A v \in ids : v <= u

\* SubscribeOrderBook between lines 241 and 251: the snapshot is installed
\* and WsDepthServe has not been called.  The exchange changes its book and
\* emits the diff event u on the depth stream of s; the process has no
\* connection to that stream yet, so no handler is called with the event.
Emit(s) ==
    /\ pc[s] = "WsDepthServe"
    /\ \E u \in 1..MaxU :
         /\ u > LastEmitted(s)
         /\ feed' = [feed EXCEPT ![s] = @ \cup {u}]
    /\ op' = NoOp
    /\ api' = NoApi
    /\ wr' = NoWrite
    /\ UNCHANGED <<writing, rl, stop, task, main, reader>>
    /\ UNCHANGED <<pc, ret, stream, cache, present, db, now, sess, calls>>

\* Worker.GetOrderBook(s), lines 114-120: under the cache mutex, read the
\* entry of s and return it.  The entry is a struct whose Bids and Asks are
\* Go maps, so the copy returned holds the same two maps as the entry; a
\* missing entry reads as the zero struct, whose maps are nil.
WorkerGetOrderBook(s) ==
    /\ reader' = [sym |-> s,
                  ok |-> s \in present,
                  shared |-> s \in present,
                  book |-> IF s \in present THEN cache[s] ELSE NoOrderBook]
    /\ op' = NoOp
    /\ api' = NoApi
    /\ wr' = NoWrite
    /\ UNCHANGED <<writing, rl, stop, task, main, feed>>
    /\ UNCHANGED <<pc, ret, stream, cache, present, db, now, sess, calls>>

\* what the caller finds in the book GetOrderBook returned to it when it
\* reads it now: maps shared with the cache entry hold what updateOrderBook
\* has written into them since
Returned ==
    IF reader.shared
    THEN [reader.book EXCEPT !.Bids = cache[reader.sym].Bids,
                             !.Asks = cache[reader.sym].Asks]
    ELSE reader.book

(***************************************************************************)
(* main: the start of the process                                          *)
(***************************************************************************)
\* log.Fatalf / l.Fatalf: the message is logged and the process exits with
\* status 1, whatever its goroutines are doing
Fatalf(message) == [main EXCEPT !.pc = "exited", !.fatal = message]

\* the steps of main change nothing but main
MainFrame ==
    /\ op' = NoOp
    /\ api' = NoApi
    /\ wr' = NoWrite
    /\ UNCHANGED <<writing, rl, stop, task, feed, reader>>
    /\ UNCHANGED <<pc, ret, stream, cache, present, db, now, sess, calls>>

\* config.FromFile() of one of the programs
FromFile(programs) ==
    /\ main.program = "none"
    /\ \E program \in programs, ok \in BOOLEAN :
         main' = IF ok
                 THEN [main EXCEPT !.program = program, !.pc = "Check"]
                 ELSE [Fatalf("Could not read config") EXCEPT
                         !.program = program]
    /\ MainFrame

\* database.Check(): the ping of the store
Check ==
    /\ main.pc = "Check"
    /\ \E ok \in BOOLEAN :
         main' = IF ~ok
                 THEN Fatalf("Can't establish connection to database")
                 ELSE [main EXCEPT
                         !.pinged = TRUE,
                         !.pc = IF main.program = "worker" THEN "NewWorker"
                                ELSE "Serve"]
    /\ MainFrame

\* binance.NewWorker of main.go:151, binance.New of part_008:46
NewWorker ==
    /\ main.pc = "NewWorker"
    /\ \E ok \in BOOLEAN :
         main' = IF ok THEN [main EXCEPT !.pc = "Start"]
                 ELSE Fatalf("Could not connect to Binance")
    /\ MainFrame

\* binanceWorker.Start() of main.go:156, StartOrderBookWorker() of
\* part_008:51: the goroutines of the worker are started
Start ==
    /\ main.pc = "Start"
    /\ main' = [main EXCEPT
                  !.workers = TRUE,
                  !.pc = IF main.program = "worker" THEN "Serve" ELSE "quit"]
    /\ MainFrame

\* go func() { apiServer.Start() }() of main.go:160, go func() {
\* apiServer.Serve() }() of part_008:40: the goroutine of the server starts
GoServe ==
    /\ main.pc = "Serve"
    /\ main' = [main EXCEPT
                  !.serving = "started",
                  !.pc = IF main.program = "worker" THEN "quit"
                         ELSE "NewWorker"]
    /\ MainFrame

\* http.ListenAndServe in the goroutine of the server: the port is bound and
\* requests are accepted, or the error is fatal
ListenAndServe ==
    /\ main.pc # "exited"
    /\ main.serving = "started"
    /\ \E ok \in BOOLEAN :
         main' = IF ok THEN [main EXCEPT !.serving = "listening"]
                 ELSE Fatalf("Server error")
    /\ MainFrame

\* the process runs and its worker was started
WorkerRuns == main.pc # "exited" /\ main.workers

\* the process runs and its API server accepts requests
ServerListens == main.pc # "exited" /\ main.serving = "listening"

(***************************************************************************)
(* The read API                                                            *)
(***************************************************************************)
\* r.URL.Query() is a function from the names of the parameters given to
\* the sequence of their values
Has(query, name) == name \in DOMAIN query /\ Len(query[name]) > 0

\* an answer of the API: what was asked, the status written, whether the
\* handler panicked (the server then closes the connection without an
\* answer), whether the store was read, whether that read returned an
\* error, the body, and for /candles the
\* arguments and the score window of the range scans
Answer(path, query, status, read, body) ==
    [path |-> path, query |-> query, status |-> status, panic |-> FALSE,
     read |-> read, failed |-> FALSE, body |-> body, window |-> NoWindow]

ErrorText(text) == [error |-> text]

\* the content of a key of the store; a key never written has no member
ZSet(key) == IF key \in DOMAIN db THEN db[key] ELSE {}

\* API.handleOrderBookRequest on a request of queries; rangeErrs says whether
\* the range scan of the store can fail (TRUE), succeed (FALSE) or both
handleOrderBookRequestOn(queries, rangeErrs) ==
    /\ \E query \in queries :
         IF ~Has(query, "symbol")
         THEN api' = Answer("/orderBook", query, 400, FALSE,
                            ErrorText("no pair specified"))
         ELSE IF ~Has(query, "depth")
         THEN api' = Answer("/orderBook", query, 400, FALSE,
                            ErrorText("no depth specified"))
         ELSE IF Atoi(query["depth"][1]).err
         THEN api' = Answer("/orderBook", query, 400, FALSE,
                            ErrorText("depth should be a number"))
         ELSE LET symbol == query["symbol"][1]
                  depth == Atoi(query["depth"][1]).val
                  zset == ZSet(formatKey("orderBook", symbol))
              IN  \E rangeErr \in rangeErrs :
                  \E orderBook \in LoadOrderBookInternal(zset, depth, rangeErr) :
                    api' =
                      IF orderBook.err
                      THEN [Answer("/orderBook", query, 500, TRUE,
                                   ErrorText("could not load order book"))
                              EXCEPT !.failed = TRUE]
                      ELSE IF orderBook.panic
                      THEN [Answer("/orderBook", query, 0, TRUE,
                                   [none |-> TRUE]) EXCEPT !.panic = TRUE]
                      ELSE Answer("/orderBook", query, 200, TRUE,
                                  [symbol |-> symbol, asks |-> orderBook.Asks,
                                   bids |-> orderBook.Bids])
    /\ op' = NoOp
    /\ wr' = NoWrite
    /\ UNCHANGED <<writing, rl, stop, task, main, feed, reader>>
    /\ UNCHANGED <<pc, ret, stream, cache, present, db, now, sess, calls>>

\* API.handleOrderBookRequest, the store failing or not
handleOrderBookRequest(queries) == handleOrderBookRequestOn(queries, BOOLEAN)

\* strconv.ParseInt(s, 10, 64)
ParseInt(s) == Atoi(s)

\* handleCandlestickRequest, lines 61-71: what the handler answers with the
\* result r of the loader
CandlesAnswer(query, timeStart, timeEnd, r) ==
    IF r.panic
    THEN [Answer("/candles", query, 0, FALSE, [none |-> TRUE])
            EXCEPT !.panic = TRUE, !.window = r.window]
    ELSE IF r.err
    THEN [Answer("/candles", query, 400, r.read,
                 ErrorText("no pair specified"))
            EXCEPT !.window = r.window, !.failed = r.read]
    ELSE [Answer("/candles", query, 200, TRUE,
                 [timeStart |-> timeStart, timeEnd |-> timeEnd,
                  candles |-> r.candles, counts |-> r.counts])
            EXCEPT !.window = r.window]

\* handleCandlestickRequest, line 61: the call of the loader with the
\* parameters of the query and the series of the three exchanges
LoadedAnswer(query, timeStart, timeEnd, rangeErr) ==
    CandlesAnswer(
      query, timeStart, timeEnd,
      LoadCandlestickListAll(
        ZSet(CandlestickKey("binance", query["symbol"][1],
                            query["interval"][1])),
        ZSet(CandlestickKey("bittrex", query["symbol"][1],
                            query["interval"][1])),
        ZSet(CandlestickKey("poloniex", query["symbol"][1],
                            query["interval"][1])),
        query["interval"][1], timeStart, timeEnd, rangeErr))

\* API.handleCandlestickRequest; the loader it calls is the one that merges
\* the three exchanges
handleCandlestickRequest(queries) ==
    /\ \E query \in queries :
         IF ~Has(query, "symbol")
         THEN api' = Answer("/candles", query, 400, FALSE,
                            ErrorText("no pair specified"))
         ELSE IF ~Has(query, "interval")
         THEN api' = Answer("/candles", query, 400, FALSE,
                            ErrorText("no interval specified"))
         ELSE IF ~IsValidInterval(query["interval"][1])
         THEN api' = Answer("/candles", query, 400, FALSE,
                            ErrorText("interval is invalid"))
         ELSE IF ~Has(query, "timeStart")
         THEN api' = Answer("/candles", query, 400, FALSE,
                            ErrorText("no timeStart specified"))
         ELSE IF ParseInt(query["timeStart"][1]).err
         THEN api' = Answer("/candles", query, 400, FALSE,
                            ErrorText("timeStart is not a number"))
         ELSE IF ~Has(query, "timeEnd")
         THEN api' = Answer("/candles", query, 400, FALSE,
                            ErrorText("no timeEnd specified"))
         ELSE IF ParseInt(query["timeEnd"][1]).err
         THEN api' = Answer("/candles", query, 400, FALSE,
                            ErrorText("timeEnd is not a number"))
         ELSE \E rangeErr \in BOOLEAN :
                api' = LoadedAnswer(
                         query,
                         ParseInt(query["timeStart"][1]).val * 1000,
                         ParseInt(query["timeEnd"][1]).val * 1000,
                         rangeErr)
    /\ op' = NoOp
    /\ wr' = NoWrite
    /\ UNCHANGED <<writing, rl, stop, task, main, feed, reader>>
    /\ UNCHANGED <<pc, ret, stream, cache, present, db, now, sess, calls>>

(***************************************************************************)
(* The candlestick writers of the exchange workers                         *)
(***************************************************************************)
\* the store holds what the store client answered for the key, and the
\* write is recorded
Stored(key, candle, r) ==
    /\ db' = Put(db, key, r.zset)
    /\ wr' = [key |-> key, candle |-> candle, err |-> r.err,
              purge |-> r.purge, add |-> r.add,
              zpre |-> ZSet(key), zpost |-> r.zset]

\* the step of a worker that writes one candle: r is what the store client
\* returned for the key
WriteCandle(key, candle, r, budget) ==
    /\ calls < budget
    /\ db' = Put(db, key, r.zset)
    /\ wr' = [key |-> key, candle |-> candle, err |-> r.err,
              purge |-> r.purge, add |-> r.add,
              zpre |-> ZSet(key), zpost |-> r.zset]
    /\ UNCHANGED <<writing, rl, stop, task, main, feed, reader>>
    /\ calls' = calls + 1
    /\ op' = NoOp
    /\ api' = NoApi
    /\ UNCHANGED <<pc, ret, stream, cache, present, now, sess>>

\* binance Worker.updateCandlestick, called by the kline stream's handler
updateCandlestick(symbol, interval, events, budget) ==
    \E event \in events, purgeErr \in BOOLEAN, storeErr \in BOOLEAN :
        LET key == CandlestickKey("binance", symbol, interval)
        IN  WriteCandle(key, CandleFromEvent(event),
                        StoreCandlestickBinance(ZSet(key), event,
                                                purgeErr, storeErr),
                        budget)

\* bittrex Worker.updateCandlestickAPI
bittrexUpdateCandlestickAPI(symbol, interval, candlesticks, budget) ==
    \E candlestick \in candlesticks, purgeErr \in BOOLEAN,
       storeErr \in BOOLEAN :
        LET key == CandlestickKey("bittrex", BittrexSymbolToBinance(symbol),
                                  BittrexIntervalToBinance(interval))
        IN  WriteCandle(key, CandleFromBittrexAPI(candlestick, now),
                        StoreCandlestickBittrexAPI(ZSet(key), candlestick, now,
                                                   purgeErr, storeErr),
                        budget)

\* poloniex Worker.updateCandlestickAPI
poloniexUpdateCandlestickAPI(symbol, interval, candlesticks, budget) ==
    \E candlestick \in candlesticks, purgeErr \in BOOLEAN,
       storeErr \in BOOLEAN :
        LET key == CandlestickKey("poloniex", PoloniexSymbolToBinance(symbol),
                                  PoloniexIntervalToBinance(interval))
        IN  WriteCandle(key, CandleFromPoloniexAPI(candlestick, now),
                        StoreCandlestickPoloniexAPI(ZSet(key), candlestick,
                                                    now, purgeErr, storeErr),
                        budget)

\* Client.storeCandlestick, line 531: the goroutine g purges the score
\* openTime of the key; the add is a later command to the store
storeCandlestickPurge(g, key, openTime, candlestick) ==
    /\ writing[g].pc = "idle"
    /\ db' = Put(db, key, purge(ZSet(key), openTime, openTime))
    /\ writing' = [writing EXCEPT
                     ![g] = [pc |-> "store", key |-> key,
                             openTime |-> openTime,
                             candlestick |-> candlestick]]
    /\ op' = NoOp
    /\ api' = NoApi
    /\ wr' = NoWrite
    /\ UNCHANGED <<rl, stop, task, main, feed, reader>>
    /\ UNCHANGED <<pc, ret, stream, cache, present, now, sess, calls>>

\* Client.storeCandlestick, line 535: the goroutine g adds its candle
storeCandlestickStore(g) ==
    /\ writing[g].pc = "store"
    /\ db' = Put(db, writing[g].key,
                 store(ZSet(writing[g].key), writing[g].openTime,
                       writing[g].candlestick))
    /\ writing' = [writing EXCEPT ![g] = NoWriting[g]]
    /\ op' = NoOp
    /\ api' = NoApi
    /\ wr' = NoWrite
    /\ UNCHANGED <<rl, stop, task, main, feed, reader>>
    /\ UNCHANGED <<pc, ret, stream, cache, present, now, sess, calls>>

\* binance Worker.updateCandlestick up to the purge of StoreCandlestickBinance
updateCandlestickPurge(symbol, interval, events) ==
    \E event \in events :
        LET candle == CandleFromEvent(event)
        IN  storeCandlestickPurge("stream",
                                  CandlestickKey("binance", symbol, interval),
                                  candle.TimeStart, MarshalCandle(candle))

\* binance Worker.updateCandlestickAPI, called by initCandlesticks for a kline
\* of the klines endpoint, up to the purge of StoreCandlestickBinanceAPI
updateCandlestickAPIPurge(symbol, interval, candlesticks) ==
    \E candlestick \in candlesticks :
        LET candle == CandleFromBinanceAPI(candlestick, now)
        IN  storeCandlestickPurge("reload",
                                  CandlestickKey("binance", symbol, interval),
                                  candle.TimeStart, MarshalCandle(candle))

(***************************************************************************)
(* GET /reload and Worker.Reload of the three workers                      *)
(***************************************************************************)
\* api.Config.Token: the shared secret of the configuration
Token == "s3cret"

\* a token check that lets every token through
AnyToken(token, secret) == TRUE

\* handleReloadRequest, line 18: token != api.config.Token is false
ValidToken(token, secret) == token = secret

\* the history the REST endpoint of the exchange answers a fetch with: one
\* candle of the first bucket
History(x) ==
    CASE x = "binance" ->
           {k \in Klines : k.OpenTime = 1699200 * 1000 /\ k.Open = "0.06"}
      [] x = "bittrex" ->
           {k \in BittrexCandles : k.TimeStamp = 1699200 /\ k.Open = "0.06"}
      [] x = "poloniex" ->
           {k \in PoloniexCandles :
              k.Date = 1699200 /\ k.Open = ParseFloat("0.06").val}

\* the key Worker.updateCandlestickAPI of the exchange writes to
UpdateKey(x, symbol, interval) ==
    CASE x = "binance" -> CandlestickKey("binance", symbol, interval)
      [] x = "bittrex" ->
           CandlestickKey("bittrex", BittrexSymbolToBinance(symbol),
                          BittrexIntervalToBinance(interval))
      [] x = "poloniex" ->
           CandlestickKey("poloniex", PoloniexSymbolToBinance(symbol),
                          PoloniexIntervalToBinance(interval))

\* the candle Worker.updateCandlestickAPI of the exchange writes
UpdateCandle(x, candlestick) ==
    CASE x = "binance" -> CandleFromBinanceAPI(candlestick, now)
      [] x = "bittrex" -> CandleFromBittrexAPI(candlestick, now)
      [] x = "poloniex" -> CandleFromPoloniexAPI(candlestick, now)

\* what the store client answers Worker.updateCandlestickAPI of the exchange
UpdateStore(x, key, candlestick, purgeErr, storeErr) ==
    CASE x = "binance" ->
           StoreCandlestickBinanceAPI(ZSet(key), candlestick, now,
                                      purgeErr, storeErr)
      [] x = "bittrex" ->
           StoreCandlestickBittrexAPI(ZSet(key), candlestick, now,
                                      purgeErr, storeErr)
      [] x = "poloniex" ->
           StoreCandlestickPoloniexAPI(ZSet(key), candlestick, now,
                                       purgeErr, storeErr)

\* API.handleReloadRequest up to the first call of Reload; one request is
\* accepted in a behaviour
handleReloadRequest(queries) ==
    /\ \E query \in queries :
         IF ~Has(query, "token")
         THEN /\ api' = Answer("/reload", query, 400, FALSE,
                               ErrorText("no token specified"))
              /\ UNCHANGED rl
         ELSE IF ~ValidToken(query["token"][1], Token)
         THEN /\ api' = Answer("/reload", query, 401, FALSE,
                               ErrorText("token is invalid"))
              /\ UNCHANGED rl
         ELSE /\ rl.pc = "idle"
              /\ ~rl.started
              /\ rl' = [rl EXCEPT !.pc = Workers[1], !.started = TRUE,
                                  !.token = query["token"][1],
                                  !.query = query]
              /\ api' = NoApi
    /\ op' = NoOp
    /\ wr' = NoWrite
    /\ UNCHANGED <<writing, stop, task, main, feed, reader>>
    /\ UNCHANGED <<pc, ret, stream, cache, present, db, now, sess, calls>>

\* Worker.Reload of the worker x, called by the handler: an iteration of the
\* inner loop starts a goroutine with the interval as its argument; after the
\* last iteration the log line is written and Reload returns
Reload(x) ==
    /\ rl.pc = x
    /\ LET k == rl.n[x] + 1
           i == CHOOSE j \in 1..Len(Workers) : Workers[j] = x
       IN  IF k \in Iterations(x)
           THEN rl' = [rl EXCEPT
                         !.n[x] = k,
                         !.go[x][k] =
                           [st |-> "running", symbol |-> "",
                            interval |->
                              WorkerIntervals(x)[IntervalIndex(x, k)]]]
           ELSE rl' = [rl EXCEPT
                         !.logged = @ \cup {x},
                         !.pc = IF i < Len(Workers) THEN Workers[i + 1]
                                ELSE "WriteHeader"]
    /\ op' = NoOp
    /\ api' = NoApi
    /\ wr' = NoWrite
    /\ UNCHANGED <<writing, stop, task, main, feed, reader>>
    /\ UNCHANGED <<pc, ret, stream, cache, present, db, now, sess, calls>>

\* handleReloadRequest, line 26: w.WriteHeader(http.StatusOK)
WriteHeader ==
    /\ rl.pc = "WriteHeader"
    /\ rl' = [rl EXCEPT !.pc = "idle"]
    /\ api' = Answer("/reload", rl.query, 200, FALSE, [none |-> TRUE])
    /\ op' = NoOp
    /\ wr' = NoWrite
    /\ UNCHANGED <<writing, stop, task, main, feed, reader>>
    /\ UNCHANGED <<pc, ret, stream, cache, present, db, now, sess, calls>>

\* The goroutine that iteration k of Reload of x started runs
\* w.initCandlesticks(symbol, s).  s is its own argument; symbol is the loop
\* variable of Reload, which the loop goes on assigning: the goroutine reads
\* it without synchronisation and finds the symbol of its own iteration or
\* of any iteration the loop has reached since.  The fetch fails (logged, no
\* write) or answers the history, which updateCandlestickAPI stores.
initCandlesticks(x, k) ==
    /\ rl.go[x][k].st = "running"
    /\ LET first == SymbolIndex(x, k)
           reached == IF rl.n[x] + 1 \in Iterations(x)
                      THEN SymbolIndex(x, rl.n[x] + 1)
                      ELSE Len(WorkerSymbols(x))
           interval == rl.go[x][k].interval
       IN  \E i \in first..reached, fetched \in BOOLEAN :
             LET symbol == WorkerSymbols(x)[i]
                 key == UpdateKey(x, symbol, interval)
             IN  /\ rl' = [rl EXCEPT !.go[x][k].st = "done",
                                     !.go[x][k].symbol = symbol]
                 /\ IF fetched
                    THEN \E candlestick \in History(x),
                            purgeErr \in BOOLEAN, storeErr \in BOOLEAN :
                           Stored(key, UpdateCandle(x, candlestick),
                                  UpdateStore(x, key, candlestick,
                                              purgeErr, storeErr))
                    ELSE /\ wr' = NoWrite
                         /\ UNCHANGED db
    /\ op' = NoOp
    /\ api' = NoApi
    /\ UNCHANGED <<writing, stop, task, main, feed, reader>>
    /\ UNCHANGED <<pc, ret, stream, cache, present, now, sess, calls>>

(***************************************************************************)
(* Worker.StopAll and the subscriptions it stops                           *)
(***************************************************************************)
\* Worker.DiffDepths (as AggTrades, Klines and the other subscription
\* methods): open a stream and append its done and stop channels to w.dones
\* and w.stops, or return the error
DiffDepths(symbol) ==
    /\ stop.pc = "idle"
    /\ Len(stop.subs) < MaxSubs
    /\ \E ok \in BOOLEAN :
         stop' = IF ok THEN [stop EXCEPT !.subs = Append(@, "open")]
                 ELSE stop
    /\ op' = NoOp
    /\ api' = NoApi
    /\ wr' = NoWrite
    /\ UNCHANGED <<writing, rl, task, main, feed, reader>>
    /\ UNCHANGED <<pc, ret, stream, cache, present, db, now, sess, calls>>

\* Worker.StopAll, one step per channel operation.  The stop channels and
\* StopC are unbuffered: a send is taken by the goroutine of an open stream,
\* the send on StopC by a goroutine of the program that receives from it
\* (the first main has one, the main that starts the worker has none).
StopAll(receivers) ==
    /\ \/ /\ stop.pc = "idle"
          /\ \E receiver \in receivers :
               stop' = [stop EXCEPT !.pc = "stops", !.i = 1,
                                    !.receiver = receiver]
       \/ /\ stop.pc = "stops"
          /\ IF stop.i \in 1..Len(stop.subs)
             THEN /\ stop.subs[stop.i] = "open"
                  /\ stop' = [stop EXCEPT !.subs[stop.i] = "stopped",
                                          !.i = @ + 1]
             ELSE stop' = [stop EXCEPT !.pc = "dones", !.i = 1]
       \/ /\ stop.pc = "dones"
          /\ IF stop.i \in 1..Len(stop.subs)
             THEN /\ stop.subs[stop.i] = "done"
                  /\ stop' = [stop EXCEPT !.i = @ + 1]
             ELSE stop' = [stop EXCEPT !.pc = "StopC"]
       \/ /\ stop.pc = "StopC"
          /\ stop.receiver
          /\ stop' = [stop EXCEPT !.pc = "returned"]
    /\ op' = NoOp
    /\ api' = NoApi
    /\ wr' = NoWrite
    /\ UNCHANGED <<writing, rl, task, main, feed, reader>>
    /\ UNCHANGED <<pc, ret, stream, cache, present, db, now, sess, calls>>

\* the stream i took its stop signal: it acknowledges by signalling done
Acknowledge(i) ==
    /\ i \in 1..Len(stop.subs)
    /\ stop.subs[i] = "stopped"
    /\ stop' = [stop EXCEPT !.subs[i] = "done"]
    /\ op' = NoOp
    /\ api' = NoApi
    /\ wr' = NoWrite
    /\ UNCHANGED <<writing, rl, task, main, feed, reader>>
    /\ UNCHANGED <<pc, ret, stream, cache, present, db, now, sess, calls>>

(***************************************************************************)
(* The candlestick tasks: SubscribeCandlestickAll of the three workers     *)
(***************************************************************************)
\* the pair (symbol, interval) whose task is followed, in the vocabulary of
\* each exchange
TaskSymbol(x) ==
    CASE x = "binance" -> "ETHBTC"
      [] x = "bittrex" -> "BTC-ETH"
      [] x = "poloniex" -> "btc-eth"

TaskInterval(x) ==
    CASE x = "binance" -> "30m"
      [] x = "bittrex" -> "thirtyMin"
      [] x = "poloniex" -> 1800

\* the kline events the stream of the followed pair delivers
TaskEvents == {e \in WsKlineEvents : e.Kline.StartTime = 1701000 * 1000}

\* updateCandlestickAPI of the worker x for a candle of the followed pair:
\* the store's answer is written, its error is only logged
TaskUpdate(x, candlestick, purgeErr, storeErr) ==
    LET key == UpdateKey(x, TaskSymbol(x), TaskInterval(x))
    IN  Stored(key, UpdateCandle(x, candlestick),
               UpdateStore(x, key, candlestick, purgeErr, storeErr))

\* Worker.SubscribeCandlestickAll: start the goroutine of the interval
SubscribeCandlestickAll(x) ==
    /\ task[x].pc = "none"
    /\ task' = [task EXCEPT ![x] = [pc |-> "initCandlesticks",
                                    failure |-> ""]]
    /\ op' = NoOp
    /\ api' = NoApi
    /\ wr' = NoWrite
    /\ UNCHANGED <<writing, rl, stop, main, feed, reader>>
    /\ UNCHANGED <<pc, ret, stream, cache, present, db, now, sess, calls>>

\* a goroutine that returns when the fetch of the history fails
InitialWindowStops(x) ==
    /\ task[x].pc = "initCandlesticks"
    /\ \E fetched \in BOOLEAN :
         IF fetched
         THEN /\ \E candlestick \in History(x), purgeErr \in BOOLEAN,
                    storeErr \in BOOLEAN :
                   TaskUpdate(x, candlestick, purgeErr, storeErr)
              /\ task' = [task EXCEPT ![x] = [pc |-> "SubscribeCandlestick",
                                              failure |-> ""]]
         ELSE /\ wr' = NoWrite
              /\ UNCHANGED db
              /\ task' = [task EXCEPT
                            ![x] = [pc |-> "returned",
                                    failure |-> "history fetch"]]
    /\ op' = NoOp
    /\ api' = NoApi
    /\ UNCHANGED <<writing, rl, stop, main, feed, reader>>
    /\ UNCHANGED <<pc, ret, stream, cache, present, now, sess, calls>>

\* the goroutine calls initCandlesticks(symbol, s): the fetch of the history
\* fails (logged) or its candle is stored; then it calls SubscribeCandlestick
InitialWindow(x) ==
    /\ task[x].pc = "initCandlesticks"
    /\ \E fetched \in BOOLEAN :
         IF fetched
         THEN /\ \E candlestick \in History(x), purgeErr \in BOOLEAN,
                    storeErr \in BOOLEAN :
                   TaskUpdate(x, candlestick, purgeErr, storeErr)
              /\ task' = [task EXCEPT ![x] = [pc |-> "SubscribeCandlestick",
                                              failure |-> ""]]
         ELSE /\ wr' = NoWrite
              /\ UNCHANGED db
              /\ task' = [task EXCEPT
                            ![x] = [pc |-> "SubscribeCandlestick",
                                    failure |-> "history fetch"]]
    /\ op' = NoOp
    /\ api' = NoApi
    /\ UNCHANGED <<writing, rl, stop, main, feed, reader>>
    /\ UNCHANGED <<pc, ret, stream, cache, present, now, sess, calls>>

\* Worker.SubscribeCandlestick, the body of its loop.  Binance: open the
\* kline stream and wait for its done channel, or return the error of the
\* open.  Bittrex and Poloniex: poll the latest tick, store it or log the
\* error, and wait for the next tick of requestInterval.
SubscribeCandlestick(x) ==
    /\ task[x].pc = "SubscribeCandlestick"
    /\ \E ok \in BOOLEAN :
         IF x = "binance"
         THEN /\ task' = [task EXCEPT
                            ![x] = IF ok
                                   THEN [pc |-> "doneC", failure |-> ""]
                                   ELSE [pc |-> "returned",
                                         failure |-> "stream open"]]
              /\ wr' = NoWrite
              /\ UNCHANGED db
         ELSE IF ok
         THEN /\ \E candlestick \in History(x), purgeErr \in BOOLEAN,
                    storeErr \in BOOLEAN :
                   TaskUpdate(x, candlestick, purgeErr, storeErr)
              /\ task' = [task EXCEPT ![x] = [pc |-> "Tick",
                                              failure |-> ""]]
         ELSE /\ wr' = NoWrite
              /\ UNCHANGED db
              /\ task' = [task EXCEPT ![x] = [pc |-> "Tick",
                                              failure |-> "poll"]]
    /\ op' = NoOp
    /\ api' = NoApi
    /\ UNCHANGED <<writing, rl, stop, main, feed, reader>>
    /\ UNCHANGED <<pc, ret, stream, cache, present, now, sess, calls>>

\* the kline stream calls wsCandlestickHandler with an event, which
\* updateCandlestick stores
wsCandlestickHandler(events) ==
    /\ task["binance"].pc = "doneC"
    /\ \E event \in events, purgeErr \in BOOLEAN, storeErr \in BOOLEAN :
         LET key == CandlestickKey("binance", TaskSymbol("binance"),
                                   TaskInterval("binance"))
         IN  Stored(key, CandleFromEvent(event),
                    StoreCandlestickBinance(ZSet(key), event, purgeErr,
                                            storeErr))
    /\ task' = [task EXCEPT !["binance"].failure = ""]
    /\ op' = NoOp
    /\ api' = NoApi
    /\ UNCHANGED <<writing, rl, stop, main, feed, reader>>
    /\ UNCHANGED <<pc, ret, stream, cache, present, now, sess, calls>>

\* the kline stream disconnects: its done channel is signalled and
\* SubscribeCandlestick waits for the next tick of requestInterval
KlineStreamDone ==
    /\ task["binance"].pc = "doneC"
    /\ task' = [task EXCEPT !["binance"] = [pc |-> "Tick",
                                            failure |-> "disconnect"]]
    /\ op' = NoOp
    /\ api' = NoApi
    /\ wr' = NoWrite
    /\ UNCHANGED <<writing, rl, stop, main, feed, reader>>
    /\ UNCHANGED <<pc, ret, stream, cache, present, db, now, sess, calls>>

\* <-time.Tick(w.requestInterval): the loop of SubscribeCandlestick goes on
RequestInterval(x) ==
    /\ task[x].pc = "Tick"
    /\ task' = [task EXCEPT ![x] = [pc |-> "SubscribeCandlestick",
                                    failure |-> ""]]
    /\ op' = NoOp
    /\ api' = NoApi
    /\ wr' = NoWrite
    /\ UNCHANGED <<writing, rl, stop, main, feed, reader>>
    /\ UNCHANGED <<pc, ret, stream, cache, present, db, now, sess, calls>>

\* The reconciler of one symbol.
Next ==
    \/ GetOrderBook("LTCBTC", SnapshotData)
    \/ WsDepthServe("LTCBTC")
    \/ wsDiffDepthsHandler("LTCBTC", Events, MaxEvents, {0})
    \/ StreamDone("LTCBTC")
    \/ Reconnect("LTCBTC")
    \/ Tick

Spec == Init /\ [][Next]_vars

\* The reconcilers of all symbols, as Worker.Start spawns them, with one
\* depth event.
NextSymbols ==
    \/ \E s \in Symbols : GetOrderBook(s, SnapshotData)
    \/ \E s \in Symbols : WsDepthServe(s)
    \/ \E s \in Symbols : wsDiffDepthsHandler(s, Events, 1, {0})
    \/ \E s \in Symbols : StreamDone(s)
    \/ \E s \in Symbols : Reconnect(s)

SpecSymbols == Init /\ [][NextSymbols]_vars

\* One reconciler, one call of updateOrderBook, over every snapshot of
\* AllSnapshotData and every event of AllEvents, the clock advancing or not
\* between the purge and the add.
NextApply ==
    \/ GetOrderBook("LTCBTC", AllSnapshotData)
    \/ WsDepthServe("LTCBTC")
    \/ wsDiffDepthsHandler("LTCBTC", AllEvents, 1, {0, TickStep})

SpecApply == Init /\ [][NextApply]_vars

\* the requests GET /orderBook of the model: symbol and depth given or not
OrderBookQueries ==
    {[p \in names |-> IF p = "symbol" THEN <<"LTCBTC">> ELSE <<d>>] :
        names \in SUBSET {"symbol", "depth"}, d \in {"1", "2", "-1", "x"}}

\* One reconciler and the read API: depth events are applied and persisted
\* within one second while GET /orderBook is served.
NextRead ==
    \/ GetOrderBook("LTCBTC", SnapshotData)
    \/ WsDepthServe("LTCBTC")
    \/ wsDiffDepthsHandler("LTCBTC", Events, MaxEvents, {0})
    \/ handleOrderBookRequest(OrderBookQueries)

SpecRead == Init /\ [][NextRead]_vars

\* the first run of the process: no key of the store has a member
InitEmpty ==
    /\ pc = [s \in Symbols |-> "getOrderBook"]
    /\ ret = [s \in Symbols |-> "running"]
    /\ stream = [s \in Symbols |-> FALSE]
    /\ cache = [s \in Symbols |-> NoOrderBook]
    /\ present = {}
    /\ db = [k \in Keys |-> {}]
    /\ now = StartTime
    /\ sess = [s \in Symbols |-> NoSession]
    /\ op = NoOp
    /\ calls = 0
    /\ api = NoApi
    /\ wr = NoWrite
    /\ writing = NoWriting
    /\ rl = NoReload
    /\ stop = NoStop
    /\ task = NoTask
    /\ main = NoMain
    /\ feed = NoFeed
    /\ reader = NoReader

\* requests GET /orderBook for both symbols, with depths 0, 1, -1 and a depth
\* that is no number, symbol and depth given or not
EmptyQueries ==
    {[p \in names |-> IF p = "symbol" THEN <<symbol>> ELSE <<d>>] :
        names \in SUBSET {"symbol", "depth"}, symbol \in Symbols,
        d \in {"0", "1", "-1", "x"}}

\* The reconciler of LTCBTC persists its books in a store that was empty
\* while GET /orderBook is served for LTCBTC and ETHBTC; the range scans of
\* the store succeed.
NextEmpty ==
    \/ GetOrderBook("LTCBTC", SnapshotData)
    \/ WsDepthServe("LTCBTC")
    \/ wsDiffDepthsHandler("LTCBTC", Events, MaxEvents, {0})
    \/ handleOrderBookRequestOn(EmptyQueries, {FALSE})

SpecEmpty == InitEmpty /\ [][NextEmpty]_vars

\* The reconciler of one symbol and the exchange: update ids are given out
\* in increasing order; a snapshot carries the id of the last event emitted
\* before it was taken or a later one, and a stream carries the events
\* emitted after it was opened.
NextSession ==
    \/ GetOrderBook("LTCBTC",
                    {d \in SnapshotData :
                       d.LastUpdateID >= LastEmitted("LTCBTC")})
    \/ Emit("LTCBTC")
    \/ WsDepthServe("LTCBTC")
    \/ wsDiffDepthsHandler("LTCBTC",
                           {e \in Events :
                              e.UpdateID > LastEmitted("LTCBTC")},
                           MaxEvents, {0})
    \/ StreamDone("LTCBTC")
    \/ Reconnect("LTCBTC")

SpecSession == Init /\ [][NextSession]_vars

\* One session of the reconciler of LTCBTC (the entry of the cache is
\* installed once) and a caller of Worker.GetOrderBook.
NextShared ==
    \/ GetOrderBook("LTCBTC", SnapshotData)
    \/ WsDepthServe("LTCBTC")
    \/ wsDiffDepthsHandler("LTCBTC", Events, MaxEvents, {0})
    \/ WorkerGetOrderBook("LTCBTC")

SpecShared == Init /\ [][NextShared]_vars

\* the mains whose start is followed
Programs == {"worker", "orderbook"}

\* The start of the process: main, then the reconciler of LTCBTC once the
\* worker was started and GET /orderBook once the server listens.
NextBoot ==
    \/ FromFile(Programs)
    \/ Check
    \/ NewWorker
    \/ Start
    \/ GoServe
    \/ ListenAndServe
    \/ WorkerRuns /\ GetOrderBook("LTCBTC", SnapshotData)
    \/ WorkerRuns /\ WsDepthServe("LTCBTC")
    \/ WorkerRuns /\ wsDiffDepthsHandler("LTCBTC", Events, 1, {0})
    \/ ServerListens /\ handleOrderBookRequest(OrderBookQueries)

SpecBoot == Init /\ [][NextBoot]_vars

\* the maps of at most n levels with prices among keys and sizes among sizes
Sides(keys, sizes, n) ==
    UNION {[K -> sizes] : K \in {S \in SUBSET keys : Cardinality(S) <= n}}

\* the book of scenario E1
E1Book ==
    OrderBookInternal(0,
        Put(Put(EmptyMap, "0.009", "5"), "0.008", "4"),
        Put(Put(Put(EmptyMap, "0.01", "1"), "0.02", "2"), "0.03", "3"))

\* books an earlier run can have left in the store: "0.01" and "0.010" are
\* two texts of one price, "x" is a text that does not parse
StoredBooks ==
    {E1Book} \cup
    {OrderBookInternal(0, bids, asks) :
        bids \in Sides({"0.008", "0.009", "x"}, {"2", "x"}, MaxSide),
        asks \in Sides({"0.01", "0.010", "0.02", "0.03", "x"},
                       {"1", "x"}, MaxSide)}

\* the process starts over a store that holds one of StoredBooks
InitStored ==
    /\ pc = [s \in Symbols |-> "getOrderBook"]
    /\ ret = [s \in Symbols |-> "running"]
    /\ stream = [s \in Symbols |-> FALSE]
    /\ cache = [s \in Symbols |-> NoOrderBook]
    /\ present = {}
    /\ \E orderBook \in StoredBooks :
         db = [k \in Keys |-> {[Member |-> Marshal(orderBook),
                                Score |-> StartTime - TickStep]}]
    /\ now = StartTime
    /\ sess = [s \in Symbols |-> NoSession]
    /\ op = NoOp
    /\ calls = 0
    /\ api = NoApi
    /\ wr = NoWrite
    /\ writing = NoWriting
    /\ rl = NoReload
    /\ stop = NoStop
    /\ task = NoTask
    /\ main = NoMain
    /\ feed = NoFeed
    /\ reader = NoReader

\* GET /orderBook?symbol=LTCBTC&depth=d for the depths up to MaxDepth
FormatQueries ==
    {[p \in {"symbol", "depth"} |->
         IF p = "symbol" THEN <<"LTCBTC">> ELSE <<ToString(d)>>] :
        d \in 0..MaxDepth}

\* The read API over every stored book: LoadOrderBookInternal and Format.
NextFormat == handleOrderBookRequest(FormatQueries)

SpecFormat == InitStored /\ [][NextFormat]_vars

\* a request GET /candles with all four parameters
CandleQuery(symbol, interval, timeStart, timeEnd) ==
    [p \in {"symbol", "interval", "timeStart", "timeEnd"} |->
        CASE p = "symbol" -> <<symbol>>
          [] p = "interval" -> <<interval>>
          [] p = "timeStart" -> <<timeStart>>
          [] p = "timeEnd" -> <<timeEnd>>]

\* The candlestick writers of the three exchanges for ETHBTC at 30 minutes.
NextCandles ==
    \/ updateCandlestick("ETHBTC", "30m", WsKlineEvents, MaxWrites)
    \/ bittrexUpdateCandlestickAPI("BTC-ETH", "thirtyMin", BittrexCandles,
                                   MaxWrites)
    \/ poloniexUpdateCandlestickAPI("btc-eth", 1800, PoloniexCandles,
                                    MaxWrites)

SpecCandles == Init /\ [][NextCandles]_vars

\* the members the writer of an exchange can have left under its key
\* candlestick:ETHBTC:30m, written StartTime - TickStep
StoredCandles(exchange) ==
    CASE exchange = "binance" ->
           {MarshalCandle(CandleFromEvent(e)) : e \in WsKlineEvents}
      [] exchange = "bittrex" ->
           {MarshalCandle(CandleFromBittrexAPI(c, StartTime - TickStep)) :
               c \in BittrexCandles}
      [] exchange = "poloniex" ->
           {MarshalCandle(CandleFromPoloniexAPI(c, StartTime - TickStep)) :
               c \in PoloniexCandles}

\* the contents of a candlestick key: at most one member per score, the
\* score being the candle's time_start
StoredSeries(exchange) ==
    {{[Member |-> c, Score |-> c.timeStart] : c \in S} :
        S \in {T \in SUBSET StoredCandles(exchange) :
                 \A c1, c2 \in T : c1.timeStart = c2.timeStart => c1 = c2}}

Exchanges == {"binance", "bittrex", "poloniex"}

\* the process runs over a store that holds candles of the three exchanges:
\* any candle shape in the bucket 1699200, a shape that closes above its
\* open in the bucket 1701000
InitMerge ==
    /\ pc = [s \in Symbols |-> "getOrderBook"]
    /\ ret = [s \in Symbols |-> "running"]
    /\ stream = [s \in Symbols |-> FALSE]
    /\ cache = [s \in Symbols |-> NoOrderBook]
    /\ present = {}
    /\ \E binance \in StoredSeries("binance"),
          bittrex \in StoredSeries("bittrex"),
          poloniex \in StoredSeries("poloniex") :
         /\ \A e \in binance \cup bittrex \cup poloniex :
              e.Score = 1701000 => e.Member.open < e.Member.close
         /\ db = [k \in Keys \cup {CandlestickKey(e, "ETHBTC", "30m") :
                                      e \in Exchanges} |->
                    CASE k \in Keys -> StoredAtStart
                      [] k = CandlestickKey("binance", "ETHBTC", "30m") -> binance
                      [] k = CandlestickKey("bittrex", "ETHBTC", "30m") -> bittrex
                      [] k = CandlestickKey("poloniex", "ETHBTC", "30m") ->
                           poloniex]
    /\ now = StartTime
    /\ sess = [s \in Symbols |-> NoSession]
    /\ op = NoOp
    /\ calls = 0
    /\ api = NoApi
    /\ wr = NoWrite
    /\ writing = NoWriting
    /\ rl = NoReload
    /\ stop = NoStop
    /\ task = NoTask
    /\ main = NoMain
    /\ feed = NoFeed
    /\ reader = NoReader

\* requests for the 30 minute candles of ETHBTC: a window given in seconds
\* around the buckets, and windows that are a thousandth of that
MergeQueries ==
    {CandleQuery("ETHBTC", "30m", "1699200", "1701000"),
     CandleQuery("ETHBTC", "30m", "0", "1702"),
     CandleQuery("ETHBTC", "30m", "1701", "1702")}

\* GET /candles over every content of the three candlestick keys.
NextMerge == handleCandlestickRequest(MergeQueries)

SpecMerge == InitMerge /\ [][NextMerge]_vars

\* the store when the pollers of Bittrex and Poloniex have written a candle
\* of the bucket 1699200 and no Binance candle is stored yet
InitRace ==
    /\ pc = [s \in Symbols |-> "getOrderBook"]
    /\ ret = [s \in Symbols |-> "running"]
    /\ stream = [s \in Symbols |-> FALSE]
    /\ cache = [s \in Symbols |-> NoOrderBook]
    /\ present = {}
    /\ \E bittrex \in StoredSeries("bittrex"),
          poloniex \in StoredSeries("poloniex") :
         /\ {e.Score : e \in bittrex} = {1699200}
         /\ {e.Score : e \in poloniex} = {1699200}
         /\ db = [k \in Keys \cup {CandlestickKey(e, "ETHBTC", "30m") :
                                     e \in Exchanges} |->
                    CASE k \in Keys -> StoredAtStart
                      [] k = CandlestickKey("binance", "ETHBTC", "30m") -> {}
                      [] k = CandlestickKey("bittrex", "ETHBTC", "30m") ->
                           bittrex
                      [] k = CandlestickKey("poloniex", "ETHBTC", "30m") ->
                           poloniex]
    /\ now = StartTime
    /\ sess = [s \in Symbols |-> NoSession]
    /\ op = NoOp
    /\ calls = 0
    /\ api = NoApi
    /\ wr = NoWrite
    /\ writing = NoWriting
    /\ rl = NoReload
    /\ stop = NoStop
    /\ task = NoTask
    /\ main = NoMain
    /\ feed = NoFeed
    /\ reader = NoReader

\* the kline events and the klines of the bucket 1699200
RaceEvents == {e \in WsKlineEvents : e.Kline.StartTime = 1699200 * 1000}
RaceKlines == {k \in Klines : k.OpenTime = 1699200 * 1000}

\* The kline stream's handler and initCandlesticks of a Reload write the
\* Binance candles of ETHBTC at 30 minutes while /candles is served.
NextRace ==
    \/ updateCandlestickPurge("ETHBTC", "30m", RaceEvents)
    \/ storeCandlestickStore("stream")
    \/ updateCandlestickAPIPurge("ETHBTC", "30m", RaceKlines)
    \/ storeCandlestickStore("reload")
    \/ handleCandlestickRequest({CandleQuery("ETHBTC", "30m", "0", "1702")})

SpecRace == InitRace /\ [][NextRace]_vars

\* r.URL.Query() of a request: the parameters that were given, each with
\* its values; given[name] = <<>> when the parameter name is not in the URL
UrlQuery(given) ==
    [name \in {n \in DOMAIN given : given[n] # <<>>} |-> given[name]]

\* interval strings outside the canonical list
OtherIntervals == {"", "1s", "90m", "1D", "thirtyMin"}

\* requests of /candles with every canonical and some other intervals, and
\* requests with parameters left out, empty or not numbers
ParamQueries ==
    {CandleQuery("ETHBTC", interval, "1700", "1702") :
        interval \in {BinanceCandlestickIntervalList[i] :
                        i \in 1..Len(BinanceCandlestickIntervalList)}
                     \cup OtherIntervals}
    \cup
    {UrlQuery([symbol |-> symbol, interval |-> interval,
               timeStart |-> timeStart, timeEnd |-> timeEnd]) :
        symbol \in {<<>>, <<"ETHBTC">>},
        interval \in {<<>>, <<"30m">>},
        timeStart \in {<<>>, <<"">>, <<"x">>, <<"0.01">>, <<"1700">>},
        timeEnd \in {<<>>, <<"">>, <<"x">>, <<"1702">>}}

\* The read API over requests with missing and malformed parameters.
NextParams ==
    \/ handleOrderBookRequest(OrderBookQueries)
    \/ handleCandlestickRequest(ParamQueries)

SpecParams == Init /\ [][NextParams]_vars

\* requests for every canonical interval over several windows
AlignQueries ==
    {CandleQuery("ETHBTC", BinanceCandlestickIntervalList[i], s, e) :
        i \in 1..Len(BinanceCandlestickIntervalList),
        s \in {"0", "1700", "1701", "1699200"},
        e \in {"1702", "1701000"}}

\* GET /candles for every canonical interval.
NextAlign == handleCandlestickRequest(AlignQueries)

SpecAlign == Init /\ [][NextAlign]_vars

\* GET /reload with no token, an empty one, a wrong one, the secret, and two
\* tokens of which the handler reads the first
ReloadQueries ==
    {UrlQuery([token |-> t]) :
       t \in {<<>>, <<"">>, <<"wrong">>, <<Token>>, <<"wrong", Token>>,
              <<Token, "wrong">>}}

\* The reload endpoint, the loops of Reload and the goroutines they start.
NextReload ==
    \/ handleReloadRequest(ReloadQueries)
    \/ \E i \in 1..Len(Workers) : Reload(Workers[i])
    \/ WriteHeader
    \/ \E i \in 1..Len(Workers) :
         \E k \in Iterations(Workers[i]) : initCandlesticks(Workers[i], k)

SpecReload == Init /\ [][NextReload]_vars

\* the symbol list of the worker that is stopped
StopSymbols == {"LTCBTC"}

\* The reconciler Worker.Start spawns for a symbol, subscriptions registered
\* with the worker, and a call of StopAll.
NextStop ==
    \/ \E s \in StopSymbols : GetOrderBook(s, SnapshotData)
    \/ \E s \in StopSymbols : WsDepthServe(s)
    \/ \E s \in StopSymbols : wsDiffDepthsHandler(s, Events, 1, {0})
    \/ \E s \in StopSymbols : StreamDone(s)
    \/ \E s \in StopSymbols : Reconnect(s)
    \/ \E s \in StopSymbols : DiffDepths(s)
    \/ StopAll(BOOLEAN)
    \/ \E i \in 1..MaxSubs : Acknowledge(i)

SpecStop == Init /\ [][NextStop]_vars

\* StopAll goes on whenever its channel operation can be taken, and every
\* stream that took a stop signal acknowledges it.
FairStop ==
    /\ WF_vars(StopAll(BOOLEAN))
    /\ \A i \in 1..MaxSubs : WF_vars(Acknowledge(i))

SpecStopFair == SpecStop /\ FairStop

\* The candlestick task of one pair on each of the three exchanges.
NextTasks ==
    \/ \E i \in 1..Len(Workers) : SubscribeCandlestickAll(Workers[i])
    \/ \E i \in 1..Len(Workers) : InitialWindow(Workers[i])
    \/ \E i \in 1..Len(Workers) : SubscribeCandlestick(Workers[i])
    \/ wsCandlestickHandler(TaskEvents)
    \/ KlineStreamDone
    \/ \E i \in 1..Len(Workers) : RequestInterval(Workers[i])

SpecTasks == Init /\ [][NextTasks]_vars

\* symbols and intervals handed to the Bittrex worker's update: a pair of
\* the translation tables, a symbol that is in no table and an interval that
\* is in no mapping
UnknownSymbols == {"BTC-ETH", "BTC-XRP"}
UnknownIntervals == {"thirtyMin", "week"}

\* The Bittrex worker stores candles of known and unknown symbols and
\* intervals.
NextUnknown ==
    \E symbol \in UnknownSymbols, interval \in UnknownIntervals :
        bittrexUpdateCandlestickAPI(symbol, interval, BittrexCandles,
                                    MaxWrites)

SpecUnknown == Init /\ [][NextUnknown]_vars

(***************************************************************************)
(* Properties                                                              *)
(***************************************************************************)
\* a call of updateOrderBook was made by the last step
Called == op.sym # ""

\* side post is side pre with the levels written: for every price, the last
\* level of that price decides, and a price no level names is left alone
LevelsApplied(pre, post, levels) ==
    \A p \in Prices \cup DOMAIN pre \cup DOMAIN post :
        LET named == {i \in 1..Len(levels) : levels[i].Price = p}
        IN  IF named = {}
            THEN /\ p \in DOMAIN post <=> p \in DOMAIN pre
                 /\ p \in DOMAIN pre => post[p] = pre[p]
            ELSE LET last == levels[CHOOSE i \in named : \A j \in named : j <= i]
                 IN  IF last.Quantity = "0.00000000"
                     THEN p \notin DOMAIN post
                     ELSE p \in DOMAIN post /\ post[p] = last.Quantity

\* the members of zset that a purge of [0, t - 60 s] removes
Expired(zset, t) == {e \in zset : 0 <= e.Score /\ e.Score <= t - 60}

\* C1 Snapshot discard rule: with a snapshot of lastUpdateId S installed,
\* an event with u <= S changes neither bids nor asks and makes no store
\* call, and an event with u > S is applied: its levels are written to the
\* book and the book is handed to the store.
C1_SnapshotDiscard ==
    Called =>
        IF op.event.UpdateID <= op.S
        THEN /\ op.post.Bids = op.pre.Bids
             /\ op.post.Asks = op.pre.Asks
             /\ op.purge = "none" /\ op.add = "none"
             /\ op.zpost = op.zpre
        ELSE /\ LevelsApplied(op.pre.Bids, op.post.Bids, op.event.Bids)
             /\ LevelsApplied(op.pre.Asks, op.post.Asks, op.event.Asks)
             /\ op.purge # "none"

\* an event with u <= S that names a level is dropped after an earlier
\* event of the session (u > S) was applied
C1_Witness ==
    /\ Called
    /\ op.maxU > op.S
    /\ op.event.UpdateID = op.S
    /\ op.event.Bids # <<>>
    /\ op.post = op.pre

\* C2 Book monotonicity: after events with u greater than the book's
\* last_update_id were applied, the cached book's last_update_id equals
\* the greatest u applied.
C2_BookMonotonicity ==
    \A s \in Symbols :
        sess[s].maxU > 0 => cache[s].LastUpdateID = sess[s].maxU

\* C3 Out-of-order events are dropped: an event whose u is not greater than
\* the u of an event already applied in the session does not modify the
\* book and is not persisted.
C3_OutOfOrderDropped ==
    (Called /\ op.maxU > 0 /\ op.event.UpdateID <= op.maxU) =>
        /\ op.post = op.pre
        /\ op.purge = "none" /\ op.add = "none"

\* C4 Protocol order: in every attempt the depth stream is opened before
\* the snapshot is requested, so once the attempt's snapshot is installed
\* the stream is open.
C4_StreamBeforeSnapshot ==
    \A s \in Symbols : pc[s] = "WsDepthServe" => stream[s]

\* C5 Zero-size deletion: an applied event removes price p from a side
\* exactly when its last level for p on that side has the size
\* "0.00000000"; any other size is written; prices the event does not name
\* keep their level; of two levels of one price the later wins.
C5_ZeroSizeDeletion ==
    (Called /\ op.applied) =>
        /\ LevelsApplied(op.pre.Bids, op.post.Bids, op.event.Bids)
        /\ LevelsApplied(op.pre.Asks, op.post.Asks, op.event.Asks)
        /\ \A i \in 1..Len(op.event.Bids) :
             (\A j \in (i+1)..Len(op.event.Bids) :
                 op.event.Bids[j].Price # op.event.Bids[i].Price)
             => (op.event.Bids[i].Price \in DOMAIN op.post.Bids
                    <=> op.event.Bids[i].Quantity # "0.00000000")
        /\ \A i \in 1..Len(op.event.Asks) :
             (\A j \in (i+1)..Len(op.event.Asks) :
                 op.event.Asks[j].Price # op.event.Asks[i].Price)
             => (op.event.Asks[i].Price \in DOMAIN op.post.Asks
                    <=> op.event.Asks[i].Quantity # "0.00000000")

\* an event names one bid price twice, first with the size "0" and then
\* with the zero sentinel, over a book that has that price and another one
C5_Witness ==
    /\ Called /\ op.applied
    /\ Len(op.event.Bids) = 2
    /\ op.event.Bids[1] = [Price |-> "0.01", Quantity |-> "0"]
    /\ op.event.Bids[2] = [Price |-> "0.01", Quantity |-> "0.00000000"]
    /\ DOMAIN op.pre.Bids = {"0.01", "0.02"}
    /\ DOMAIN op.post.Bids = {"0.02"}

\* C6 A 429 response to the snapshot fetch is never decoded into a book and
\* installed: the installed book always comes from a 200 response.
C6_InstalledFrom200 ==
    \A s \in present : sess[s].status = 200

\* C7 A failed snapshot fetch ends only the current attempt: the
\* reconciler task of the symbol stays alive (SubscribeOrderBook does not
\* return because of it).
C7_FetchFailureKeepsTask ==
    \A s \in Symbols : ret[s] # "could not get order book"

\* C8 Reconnect on stream close: the snapshot fetch that follows a stream
\* close and the tick installs a new snapshot, after which a new stream is
\* opened; the reconciler does not end there.
C8_ReconnectAfterClose ==
    [][\A s \in Symbols :
          (pc[s] = "getOrderBook" /\ s \in present /\ pc'[s] # pc[s])
          => pc'[s] = "WsDepthServe"]_vars

\* C9 Persist after each applied event: within the call, an applied event
\* is followed by a purge of the members of orderBook:<symbol> with score
\* in [0, now - 60 s] and then an add of the JSON of the current book at
\* score now; a dropped event makes neither call; after a failed purge no
\* add is attempted.
C9_PersistAfterApply ==
    Called =>
        /\ ~op.applied =>
             op.purge = "none" /\ op.add = "none" /\ op.zpost = op.zpre
        /\ op.applied => op.purge \in {"ok", "err"}
        /\ op.purge = "err" => op.add = "none" /\ op.zpost = op.zpre
        /\ (op.purge = "ok" /\ op.add = "err") =>
             op.zpost = op.zpre \ Expired(op.zpre, op.t1)
        /\ op.purge = "ok" => op.add \in {"ok", "err"}
        /\ op.add = "ok" =>
             /\ op.purge = "ok"
             /\ LET json == [bids |-> cache[op.sym].Bids,
                             asks |-> cache[op.sym].Asks]
                    kept == op.zpre \ Expired(op.zpre, op.t1)
                IN  /\ [Member |-> json, Score |-> now] \in op.zpost
                    /\ \A e \in op.zpost : e.Member = json => e.Score = now
                    /\ {e \in op.zpost : e.Member # json}
                         = {e \in kept : e.Member # json}
                    /\ db[formatKey("orderBook", op.sym)] = op.zpost

\* an applied event whose purge removed a member, kept another, and whose
\* add was made
C9_Witness ==
    /\ Called /\ op.applied /\ op.add = "ok"
    /\ Expired(op.zpre, op.t1) # {}
    /\ Cardinality(op.zpost) = 2

\* C10 Persistence failure does not abort the reconciler: when the purge or
\* the add fails, updateOrderBook returns no error, the cached book keeps
\* the changes of the event, the stream stays open, and a later event of
\* the stream with u > S is applied and handed to the store.
C10_PersistFailureTolerated ==
    Called =>
        /\ (op.purge = "err" \/ op.add = "err") =>
             /\ ~op.err
             /\ op.applied
             /\ LevelsApplied(op.pre.Bids, cache[op.sym].Bids, op.event.Bids)
             /\ LevelsApplied(op.pre.Asks, cache[op.sym].Asks, op.event.Asks)
             /\ stream[op.sym] /\ pc[op.sym] = "doneC"
        /\ (op.afterFail /\ op.event.UpdateID > op.S) =>
             /\ op.applied
             /\ op.purge # "none"
             /\ cache[op.sym].Bids = op.post.Bids
             /\ LevelsApplied(op.pre.Bids, op.post.Bids, op.event.Bids)

\* after a failed persist, a later event of the stream changes the book
\* and is persisted
C10_Witness ==
    /\ Called /\ op.afterFail
    /\ op.applied /\ op.add = "ok"
    /\ op.post # op.pre

\* GET /orderBook was answered 200 by the last step
Served == api.path = "/orderBook" /\ api.status = 200

\* the symbol and the depth of the request answered by the last step
AskedSymbol == api.query["symbol"][1]
AskedDepth == Atoi(api.query["depth"][1]).val

\* C11 The read API serves the latest order book: after applied depth
\* events of a symbol whose persists all succeeded, the answer of
\* GET /orderBook is the book persisted by the most recently applied event
\* (the cached book), formatted to the asked depth, also when several books
\* were persisted within one second.
C11_ServesLatestBook ==
    (/\ Served
     /\ sess[AskedSymbol].maxU > 0
     /\ ~sess[AskedSymbol].failed)
    => \E f \in Format(Unmarshal(Marshal(cache[AskedSymbol])), AskedDepth) :
          api.body.asks = f.Asks /\ api.body.bids = f.Bids

\* the levels of side that parse, as Format returns them
ParsedLevel(side, k) ==
    [Size |-> ParseFloat(side[k]).val, Price |-> ParseFloat(k).val]

\* levels is a selection of n parseable levels of side, none taken twice,
\* in ascending price order, and Best(p, q) holds of the price p of every
\* level taken and the price q of every parseable level left out
Selected(side, levels, n, Best(_, _)) ==
    LET keys == {k \in DOMAIN side :
                    ~ParseFloat(k).err /\ ~ParseFloat(side[k]).err}
    IN  /\ Len(levels) = n
        /\ \A i \in 1..(n - 1) : levels[i].Price <= levels[i + 1].Price
        /\ \E q \in [1..n -> keys] :
             /\ \A i, j \in 1..n : i # j => q[i] # q[j]
             /\ \A i \in 1..n : levels[i] = ParsedLevel(side, q[i])
             /\ \A i \in 1..n : \A k \in keys \ {q[j] : j \in 1..n} :
                  Best(levels[i].Price, ParseFloat(k).val)

NotAbove(p, q) == p <= q
NotBelow(p, q) == p >= q

Min(a, b) == IF a < b THEN a ELSE b

\* the book GET /orderBook was answered from in SpecFormat
StoredBook ==
    Unmarshal((CHOOSE e \in db[formatKey("orderBook", AskedSymbol)] :
                  TRUE).Member)

\* C12 Format-to-depth: for a book with N parseable asks and M parseable
\* bids and a depth d >= 0, Format(d) returns exactly min(N, d) asks, the
\* lowest-priced ones in ascending price order, and exactly min(M, d) bids,
\* the highest-priced ones in ascending price order; levels whose price or
\* size does not parse are dropped.
C12_FormatToDepth ==
    (Served /\ AskedDepth >= 0) =>
        LET N == Cardinality(Parseable(StoredBook.Asks))
            M == Cardinality(Parseable(StoredBook.Bids))
        IN  /\ Selected(StoredBook.Asks, api.body.asks,
                        Min(N, AskedDepth), NotAbove)
            /\ Selected(StoredBook.Bids, api.body.bids,
                        Min(M, AskedDepth), NotBelow)

\* scenario E1: depth 2 over asks 0.01, 0.02, 0.03 and bids 0.009, 0.008
C12_Witness ==
    /\ Served /\ AskedDepth = 2
    /\ StoredBook = E1Book
    /\ api.body.asks = <<ParsedLevel(E1Book.Asks, "0.01"),
                         ParsedLevel(E1Book.Asks, "0.02")>>
    /\ api.body.bids = <<ParsedLevel(E1Book.Bids, "0.008"),
                         ParsedLevel(E1Book.Bids, "0.009")>>

\* a candle was written (or its write failed) in the last step
Wrote == wr.key # ""

\* the members of zset at the score t
AtScore(zset, t) == {e \in zset : e.Score = t}

\* C13 Upsert by bucket: after any sequence of candle writes to a key, the
\* key holds at most one member per score (time_start); after a write that
\* succeeded the member at its time_start is the candle just written; and a
\* write leaves the members at every other score as they were.
C13_UpsertByBucket ==
    /\ \A key \in (DOMAIN db) \ Keys : \A e1, e2 \in db[key] :
         e1.Score = e2.Score => e1 = e2
    /\ Wrote =>
         /\ db[wr.key] = wr.zpost
         /\ wr.zpost \ AtScore(wr.zpost, wr.candle.TimeStart)
              = wr.zpre \ AtScore(wr.zpre, wr.candle.TimeStart)
         /\ ~wr.err =>
              AtScore(wr.zpost, wr.candle.TimeStart)
                = {[Member |-> [timeStart |-> wr.candle.TimeStart,
                                timeEnd |-> wr.candle.TimeEnd,
                                time |-> wr.candle.Time,
                                open |-> wr.candle.Open,
                                close |-> wr.candle.Close,
                                high |-> wr.candle.High,
                                low |-> wr.candle.Low,
                                volume |-> wr.candle.Volume],
                    Score |-> wr.candle.TimeStart]}

\* a write replaces another candle of its bucket while the key holds a
\* candle of another bucket
C13_Witness ==
    /\ Wrote /\ ~wr.err
    /\ \E e \in wr.zpre :
         e.Score = wr.candle.TimeStart /\ e.Member.open # wr.candle.Open
    /\ \E e \in wr.zpre : e.Score # wr.candle.TimeStart
    /\ Cardinality(wr.zpost) = 2

\* GET /candles was answered with status 200 by the last step
Candles == api.path = "/candles" /\ api.status = 200

\* the parameters of the request as the client gave them
AskedInterval == api.query["interval"][1]
AskedStart == ParseInt(api.query["timeStart"][1]).val
AskedEnd == ParseInt(api.query["timeEnd"][1]).val

\* the members stored under the key of an exchange for the asked series
SeriesOf(exchange) ==
    ZSet(CandlestickKey(exchange, api.query["symbol"][1], AskedInterval))

\* the scores held under at least one of the three keys of the asked series
StoredScores == {e.Score : e \in UNION {SeriesOf(x) : x \in Exchanges}}

\* the time_starts of the candles of the answer, in the order of the answer
AnsweredStarts ==
    [i \in 1..Len(api.body.candles) |-> api.body.candles[i].TimeStart]

\* C14 Candle range of /candles: for a request with timeStart=s and
\* timeEnd=e in Unix seconds, the answer holds one candle for exactly the
\* buckets whose score lies in [align(s, interval), e] under at least one of
\* the three keys, each bucket once.
C14_CandleRange ==
    Candles =>
      LET wanted == {t \in StoredScores :
                       /\ Truncate(AskedStart, ParseDuration(AskedInterval).val)
                            <= t
                       /\ t <= AskedEnd}
      IN  /\ {AnsweredStarts[i] : i \in DOMAIN AnsweredStarts} = wanted
          /\ Len(api.body.candles) = Cardinality(wanted)

\* the exchanges in the order of the merge
MergeOrder == <<"binance", "bittrex", "poloniex">>

\* the candles stored for the bucket t of the asked series, in the order of
\* the merge
Contributors(t) ==
    LET held == SelectSeq(MergeOrder,
                          LAMBDA x : AtScore(SeriesOf(x), t) # {})
    IN  [i \in 1..Len(held) |->
           UnmarshalCandle((CHOOSE e \in AtScore(SeriesOf(held[i]), t) :
                              TRUE).Member)]

\* the running average of vals: the value merged into k contributors gives
\* (old*k + new)/(k+1)
RECURSIVE RunningAverage(_)
RunningAverage(vals) ==
    IF Len(vals) = 1 THEN vals[1]
    ELSE LET k == Len(vals) - 1
         IN  (RunningAverage(SubSeq(vals, 1, k)) * k + vals[k + 1])
               \div (k + 1)

\* C15 Running-average merge of open and close: merging in the order
\* Binance, Bittrex, Poloniex, the open (close) of an answered candle is the
\* running average of the opens (closes) of its contributors: (a+b)/2 for two
\* contributors, (2*((a+b)/2) + c)/3 for three.
C15_RunningAverage ==
    Candles =>
      \A i \in DOMAIN api.body.candles :
        LET c == api.body.candles[i]
            from == Contributors(c.TimeStart)
        IN  /\ c.Open = RunningAverage([j \in DOMAIN from |-> from[j].Open])
            /\ c.Close = RunningAverage([j \in DOMAIN from |-> from[j].Close])

\* the greatest element of a non-empty set of numbers
MaxOf(S) == CHOOSE x \in S : \A y \in S : y <= x

\* the sum of a sequence of numbers
RECURSIVE SumOf(_)
SumOf(vals) == IF vals = <<>> THEN 0 ELSE Head(vals) + SumOf(Tail(vals))

Holds(x, t) == AtScore(SeriesOf(x), t) # {}

\* the low of the candle x holds for the bucket t
LowOf(x, t) == (CHOOSE e \in AtScore(SeriesOf(x), t) : TRUE).Member.low

Max(a, b) == IF a > b THEN a ELSE b

\* the low the rule gives for the bucket t: min when the Bittrex candle is
\* merged into the bucket, max when the Poloniex candle is
RuleLow(t) ==
    LET first == IF Holds("binance", t) /\ Holds("bittrex", t)
                 THEN Min(LowOf("binance", t), LowOf("bittrex", t))
                 ELSE IF Holds("binance", t) THEN LowOf("binance", t)
                 ELSE IF Holds("bittrex", t) THEN LowOf("bittrex", t)
                 ELSE -1
    IN  IF ~Holds("poloniex", t) THEN first
        ELSE IF first = -1 THEN LowOf("poloniex", t)
        ELSE Max(first, LowOf("poloniex", t))

\* C17 Merge rule for low: a Bittrex candle merged into an existing bucket
\* makes its low min(old, new), a Poloniex candle merged into an existing
\* bucket makes it max(old, new); with all three contributors the low is
\* max(min(binance, bittrex), poloniex).
C17_LowRule ==
    Candles =>
      \A i \in DOMAIN api.body.candles :
        LET c == api.body.candles[i]
        IN  /\ c.Low = RuleLow(c.TimeStart)
            /\ Len(Contributors(c.TimeStart)) = 3 =>
                 c.Low = Max(Min(LowOf("binance", c.TimeStart),
                                 LowOf("bittrex", c.TimeStart)),
                             LowOf("poloniex", c.TimeStart))

\* two buckets hold the same three lows, one of them with the greater low
\* at Poloniex and the other with the greater low at Binance, and their
\* answered lows differ
C17_Witness ==
    /\ Candles
    /\ \E i, j \in DOMAIN api.body.candles :
         LET c == api.body.candles[i]
             d == api.body.candles[j]
             t == c.TimeStart
             u == d.TimeStart
         IN  /\ Len(Contributors(t)) = 3 /\ Len(Contributors(u)) = 3
             /\ LowOf("binance", t) = LowOf("poloniex", u)
             /\ LowOf("bittrex", t) = LowOf("bittrex", u)
             /\ LowOf("poloniex", t) = LowOf("binance", u)
             /\ c.Low # d.Low

\* the exchanges that hold a candle for the bucket t of the asked series
Holders(t) == {x \in Exchanges : Holds(x, t)}

\* C18 The merged result is keyed by time_start: in every /candles answer
\* each time_start occurs in at most one candle, a bucket held by only one
\* exchange is answered as stored, and the contributor counter of every
\* bucket is between 1 and 3.
C18_KeyedByTimeStart ==
    Candles =>
      /\ \A i, j \in DOMAIN api.body.candles :
           api.body.candles[i].TimeStart = api.body.candles[j].TimeStart
             => i = j
      /\ \A i \in DOMAIN api.body.candles :
           LET c == api.body.candles[i]
           IN  \A x \in Exchanges :
                 Holders(c.TimeStart) = {x} =>
                   \E e \in AtScore(SeriesOf(x), c.TimeStart) :
                     c = UnmarshalCandle(e.Member)
      /\ \A t \in DOMAIN api.body.counts :
           1 <= api.body.counts[t] /\ api.body.counts[t] <= 3

\* the last step served /candles and called the loader
Loaded == api.path = "/candles" /\ (api.panic \/ api.read)

\* the length in seconds of a canonical interval other than 1M
IntervalSeconds(interval) ==
    CASE interval = "1d" -> day
      [] interval = "3d" -> threeDays
      [] interval = "1w" -> week
      [] OTHER -> ParseDuration(interval).val

\* t is a boundary of the interval of d seconds: a multiple of d counted
\* from the zero time of time.Time
OnBoundary(t, d) ==
    IF d % day = 0
    THEN /\ t % day = 0
         /\ ((t \div day) + unixToInternalDays) % (d \div day) = 0
    ELSE t % d = 0

\* the day of the month (1..31) of the day z, counted from the Unix epoch
DayOfMonth(z) ==
    LET shifted == z + 719468
        era == shifted \div 146097
        doe == shifted - era * 146097
        yoe == (doe - (doe \div 1460) + (doe \div 36524) - (doe \div 146096))
                 \div 365
        doy == doe - (365 * yoe + (yoe \div 4) - (yoe \div 100))
        mp == (5 * doy + 2) \div 153
    IN  doy - ((153 * mp + 2) \div 5) + 1

\* the first day of the month of t at 00:00:00 UTC, in Unix seconds
MonthStart(t) == ((t \div day) - (DayOfMonth(t \div day) - 1)) * day

\* C19 Bucket alignment: for every canonical interval and every timeStart
\* the loader completes without a fault, the lower bound of its range scan
\* is timeStart truncated down to the interval boundary (for 1M the first
\* day of timeStart's month at 00:00:00 UTC) and the upper bound is timeEnd.
C19_BucketAlignment ==
    Loaded =>
      /\ ~api.panic
      /\ api.window.max = api.window.timeEnd
      /\ IF AskedInterval = "1M"
         THEN api.window.min = MonthStart(api.window.timeStart)
         ELSE /\ api.window.min <= api.window.timeStart
              /\ api.window.timeStart - api.window.min
                   < IntervalSeconds(AskedInterval)
              /\ OnBoundary(api.window.min, IntervalSeconds(AskedInterval))

\* C20 Echo of the time window: for every accepted /candles request the
\* fields timeStart and timeEnd of the answer are the client's timeStart and
\* timeEnd multiplied by 1000, and the window the loader selects candles by
\* is the client's timeStart and timeEnd themselves.
C20_EchoOnly ==
    Candles =>
      /\ api.body.timeStart = AskedStart * 1000
      /\ api.body.timeEnd = AskedEnd * 1000
      /\ api.window.timeStart = AskedStart
      /\ api.window.timeEnd = AskedEnd

\* the canonical intervals
CanonicalIntervals ==
    {"1m", "3m", "5m", "15m", "30m", "1h", "2h", "4h", "6h", "8h", "12h",
     "1d", "3d", "1w", "1M"}

\* the last step served /candles for a request that names a symbol and an
\* interval
AskedCandles ==
    api.path = "/candles" /\ Has(api.query, "symbol")
      /\ Has(api.query, "interval")

\* C21 Interval validation: GET /candles with an interval outside the
\* canonical set is answered 400 without a store read; an interval of the
\* set is not rejected as invalid.
C21_IntervalValidation ==
    AskedCandles =>
      IF AskedInterval \in CanonicalIntervals
      THEN api.body # ErrorText("interval is invalid")
      ELSE api.status = 400 /\ ~api.read /\ ~api.panic

\* a request whose interval is a duration outside the canonical set was
\* rejected
C21_Witness ==
    /\ AskedCandles
    /\ AskedInterval = "90m"
    /\ Has(api.query, "timeStart") /\ Has(api.query, "timeEnd")
    /\ api.status = 400
    /\ api.body = ErrorText("interval is invalid")

\* the texts among the parameter values of the requests that are integers
IntegerTexts == {"0", "1", "2", "3", "4", "5", "-1", "1700", "1701", "1702",
                 "1699200", "1701000"}

\* the parameter name of the last request is given and is an integer
GivenInteger(name) ==
    Has(api.query, name) /\ api.query[name][1] \in IntegerTexts

\* the last request has every parameter of its endpoint, well-formed
WellFormed ==
    IF api.path = "/orderBook"
    THEN Has(api.query, "symbol") /\ GivenInteger("depth")
    ELSE /\ Has(api.query, "symbol") /\ Has(api.query, "interval")
         /\ GivenInteger("timeStart") /\ GivenInteger("timeEnd")

\* C22 Missing-parameter rejection: GET /orderBook without symbol or depth
\* or with a depth that is no integer, and GET /candles without symbol,
\* interval, timeStart or timeEnd or with times that are no integers, is
\* answered 400 and the store is not read; a request with every parameter
\* given and well-formed (for /candles with a canonical interval) gets past
\* these rejections to the store client.
C22_MissingParameters ==
    api.path \in {"/orderBook", "/candles"} =>
      IF ~WellFormed
      THEN api.status = 400 /\ ~api.read /\ ~api.panic
      ELSE (api.path = "/orderBook" \/ AskedInterval \in CanonicalIntervals)
             => (api.read \/ api.panic)

\* a /candles request whose timeEnd is no integer, everything else given,
\* was answered 400 without a store read
C22_Witness ==
    /\ api.path = "/candles"
    /\ Has(api.query, "symbol") /\ Has(api.query, "interval")
    /\ GivenInteger("timeStart")
    /\ Has(api.query, "timeEnd") /\ api.query["timeEnd"][1] = "x"
    /\ api.status = 400 /\ ~api.read
    /\ api.body = ErrorText("timeEnd is not a number")

\* C23 A store failure on the read path is surfaced as 500: when the read
\* of the sorted store fails while /orderBook or /candles is served for
\* valid parameters, the answer has status 500.
C23_StoreFailureIs500 ==
    (api.path \in {"/orderBook", "/candles"} /\ api.failed) =>
      api.status = 500

\* the last step answered a request to /reload
AnsweredReload == api.path = "/reload"

\* the goroutines of Reload of the worker x that were started
Started(x) == {k \in Iterations(x) : rl.go[x][k].st # "none"}

\* Reload of the worker x was invoked: its loop ran or its line was logged
Invoked(x) == rl.pc = x \/ rl.n[x] > 0 \/ x \in rl.logged

\* C24 Reload token gate: /reload without a token parameter is answered 400,
\* with a first token different from the configured secret 401 and with an
\* equal one 200; when it is answered 200 Reload was invoked on the Binance,
\* Bittrex and Poloniex workers, and Reload is invoked on a worker, or a
\* re-fetch started, only for a request whose token equals the secret.
C24_ReloadTokenGate ==
    /\ AnsweredReload =>
         /\ ~Has(api.query, "token") <=> api.status = 400
         /\ (Has(api.query, "token") /\ api.query["token"][1] # Token)
              <=> api.status = 401
         /\ (Has(api.query, "token") /\ api.query["token"][1] = Token)
              <=> api.status = 200
         /\ api.status = 200 =>
              \A i \in 1..Len(Workers) :
                  Workers[i] \in rl.logged
                  /\ Started(Workers[i]) = Iterations(Workers[i])
    /\ \A i \in 1..Len(Workers) :
         Invoked(Workers[i]) \/ Started(Workers[i]) # {} =>
             rl.started /\ rl.token = Token
    /\ ~rl.started =>
         /\ rl = NoReload
         /\ \A i \in 1..Len(Workers) :
              \A s \in 1..Len(WorkerSymbols(Workers[i])),
                 v \in 1..Len(WorkerIntervals(Workers[i])) :
                  ZSet(UpdateKey(Workers[i], WorkerSymbols(Workers[i])[s],
                                 WorkerIntervals(Workers[i])[v])) = {}

\* the request with the secret was answered 200 after the three reloads
C24_Witness ==
    /\ AnsweredReload
    /\ api.status = 200
    /\ api.query["token"] = <<Token, "wrong">>
    /\ rl.logged = {"binance", "bittrex", "poloniex"}

\* a request with a wrong first token was answered 401, nothing was reloaded
C24_Rejected ==
    /\ AnsweredReload
    /\ Has(api.query, "token")
    /\ api.query["token"] = <<"wrong", Token>>
    /\ api.status = 401
    /\ rl = NoReload

\* the goroutines of Reload of the worker x that finished initCandlesticks
\* for the symbol and the interval
Fetches(x, symbol, interval) ==
    {k \in Iterations(x) :
       /\ rl.go[x][k].st = "done"
       /\ rl.go[x][k].symbol = symbol
       /\ rl.go[x][k].interval = interval}

\* every goroutine Reload of the worker x starts has finished
AllDone(x) == \A k \in Iterations(x) : rl.go[x][k].st = "done"

\* C25 Reload coverage: once the goroutines of one call of Reload have
\* finished, initCandlesticks has run exactly once for every pair of a symbol
\* of the worker's symbol list and an interval of its interval list.
C25_ReloadCoverage ==
    \A i \in 1..Len(Workers) :
        LET x == Workers[i] IN
        AllDone(x) =>
            \A s \in 1..Len(WorkerSymbols(x)),
               v \in 1..Len(WorkerIntervals(x)) :
                Cardinality(Fetches(x, WorkerSymbols(x)[s],
                                    WorkerIntervals(x)[v])) = 1

\* C26 Reload logs on completion: when a worker has logged "cache reloaded",
\* and when /reload is answered 200, every goroutine that Reload started has
\* finished initCandlesticks.
C26_ReloadLogsOnCompletion ==
    /\ \A i \in 1..Len(Workers) :
         Workers[i] \in rl.logged => AllDone(Workers[i])
    /\ (AnsweredReload /\ api.status = 200) =>
         \A i \in 1..Len(Workers) : AllDone(Workers[i])

\* StopAll has returned
StopAllReturned == stop.pc = "returned"

\* the tasks Worker.Start spawned that have not terminated
Alive == {s \in StopSymbols : pc[s] # "returned"}

\* C27 stop_all terminates every background task: when StopAll has returned
\* every reconciler spawned by Start has terminated, and no step taken after
\* that applies a depth event or writes to the store.
C27_StopAllTerminatesTasks ==
    StopAllReturned => (Alive = {} /\ ~Called)

\* StopAll was called and every subscription it has to stop is registered
\* and takes its stop signal
StopAllCalled == stop.pc \in {"stops", "dones", "StopC"}

\* C28 stop_all terminates when streams acknowledge: with every stream that
\* took a stop signal acknowledging it, a call of StopAll eventually returns.
C28_StopAllReturns == StopAllCalled ~> StopAllReturned

\* the candlestick tasks that were started
Tasks == {x \in DOMAIN task : task[x].pc # "none"}

\* C29 Candlestick tasks survive errors: no started candlestick task has
\* terminated, and a task whose last step met a failed history fetch, a
\* failed poll, a failed stream open or a disconnect is about to subscribe
\* or waits for the next tick of request_interval.
C29_TasksSurviveErrors ==
    \A x \in Tasks :
        /\ task[x].pc # "returned"
        /\ task[x].failure # "" =>
             task[x].pc \in {"SubscribeCandlestick", "Tick"}

\* the candle keys of Bittrex with an empty symbol or interval component
EmptyComponentKeys ==
    {CandlestickKey("bittrex", symbol, interval) :
       symbol \in {"", "ETHBTC"}, interval \in {"", "30m"}}
    \ {CandlestickKey("bittrex", "ETHBTC", "30m")}

IntegerDepthServed ==
    /\ api.path = "/orderBook"
    /\ Has(api.query, "symbol")
    /\ Has(api.query, "depth")
    /\ ~Atoi(api.query["depth"][1]).err
    /\ ~api.failed

\* C36 Every integer depth is served without a fault: a request for
\* /orderBook with a symbol, a depth that parses as an integer (zero and
\* negative values included) and a readable store is answered 200 or 4xx,
\* and Format never slices outside the ask or bid list (the handler does
\* not panic).
C36_IntegerDepthServed ==
    IntegerDepthServed =>
        /\ ~api.panic
        /\ api.status = 200 \/ (api.status >= 400 /\ api.status < 500)

\* ---------------------------------------------------------------------
\* the order of the merged candle list

\* C37 The merged candle list is ordered by bucket: in every answer of
\* /candles the candles appear in strictly ascending time_start order,
\* whatever buckets Binance, Bittrex and Poloniex hold (buckets missing from
\* Binance and held by another exchange included).
C37_MergedOrderedByBucket ==
    Candles =>
      \A i, j \in DOMAIN AnsweredStarts :
         i < j => AnsweredStarts[i] < AnsweredStarts[j]

\* ---------------------------------------------------------------------
\* two writers of one candlestick key

\* no goroutine is between the purge and the add of storeCandlestick
WritersIdle == \A g \in Writers : writing[g].pc = "idle"

\* C33 Upsert under concurrency: when the kline stream's handler and
\* initCandlesticks of a Reload have written candles of the same exchange,
\* symbol, interval and time_start, each write being a purge command
\* followed by a separate add command, the key holds exactly one member at
\* every score that was written once both writes are complete.
C33_UpsertUnderConcurrency ==
    WritersIdle =>
      \A t \in Buckets :
         Cardinality(AtScore(ZSet(CandlestickKey("binance", "ETHBTC", "30m")),
                             t)) <= 1

\* ---------------------------------------------------------------------
\* the reconcilers of two symbols

\* the step installs a snapshot for the symbol a, or hands a depth event of
\* a to updateOrderBook (which applies it or drops it)
ActsOn(a) ==
    \/ pc[a] = "getOrderBook" /\ pc'[a] = "WsDepthServe"
    \/ op'.sym = a /\ calls' # calls

\* C35 Symbol independence: a step that installs a snapshot for the symbol
\* A, or applies or drops a depth event of A, leaves the cache entry of
\* every other symbol B and the store key orderBook:<B> unchanged, under
\* every interleaving of the reconcilers of the symbols.
C35_SymbolIndependence ==
    [][\A a \in Symbols : \A b \in Symbols \ {a} :
         ActsOn(a) =>
           /\ cache'[b] = cache[b]
           /\ (b \in present') = (b \in present)
           /\ ZSet(formatKey("orderBook", b))' = ZSet(formatKey("orderBook", b))
      ]_vars

\* an event of LTCBTC was applied and persisted while ETHBTC holds its own
\* snapshot and its stream is open
C35_Witness ==
    /\ op.sym = "LTCBTC"
    /\ op.applied
    /\ op.add = "ok"
    /\ "ETHBTC" \in present
    /\ stream["ETHBTC"]
    /\ cache["ETHBTC"] # cache["LTCBTC"]
    /\ ZSet(formatKey("orderBook", "ETHBTC")) # {}

\* ---------------------------------------------------------------------
\* GET /orderBook on a key without members

\* the request the handler answered has a symbol and an integer depth and
\* the key of the symbol has no member
AskedEmptyKey ==
    /\ api.path = "/orderBook"
    /\ Has(api.query, "symbol")
    /\ Has(api.query, "depth")
    /\ ~Atoi(api.query["depth"][1]).err
    /\ ZSet(formatKey("orderBook", api.query["symbol"][1])) = {}

\* C39 Empty store is not an error: GET /orderBook with valid parameters
\* for a symbol whose key orderBook:<symbol> has no member (the store
\* answering its range scan) is answered 200
\* with an empty asks list and an empty bids list, not 4xx or 5xx.
C39_EmptyStoreNotAnError ==
    AskedEmptyKey =>
        /\ api.status = 200
        /\ ~api.panic
        /\ api.body = [symbol |-> api.query["symbol"][1],
                       asks |-> <<>>, bids |-> <<>>]

\* ETHBTC was asked with depth 1 after LTCBTC has stored a book: the key of
\* ETHBTC is still empty and the answer is 200
C39_Witness ==
    /\ AskedEmptyKey
    /\ api.query["symbol"][1] = "ETHBTC"
    /\ api.query["depth"][1] = "1"
    /\ api.status = 200
    /\ ZSet(formatKey("orderBook", "LTCBTC")) # {}

\* ---------------------------------------------------------------------
\* the history fetch and the steady state of a candlestick task

\* the key the task of the worker x writes its candles to
TaskKey(x) == UpdateKey(x, TaskSymbol(x), TaskInterval(x))

\* the goroutine of x has left initCandlesticks: it subscribes, polls, waits
\* for its stream or its tick, or has returned
SteadyState(x) ==
    task[x].pc \in {"SubscribeCandlestick", "doneC", "Tick", "returned"}

\* C38 History before live updates: the goroutine a worker starts for a
\* pair first runs the history fetch; the step that ends the fetch, having
\* written its candles or having failed, is the one that takes the goroutine
\* to the subscription or poll of the pair; and once the goroutine is in its
\* steady state the history fetch writes nothing more (every write to the
\* key of the pair is then a write of the subscription or poll).
C38_HistoryBeforeLive ==
    [][\A x \in DOMAIN task :
         /\ (task[x].pc = "none" /\ task'[x].pc # "none")
               => task'[x].pc = "initCandlesticks"
         /\ (task[x].pc = "initCandlesticks" /\ task'[x] # task[x])
               => task'[x].pc = "SubscribeCandlestick"
         /\ SteadyState(x) => SteadyState(x)'
         /\ (task'[x] # task[x] /\ wr' # NoWrite /\ wr'.key = TaskKey(x))
               => \/ task[x].pc = "initCandlesticks"
                  \/ task[x].pc \in {"SubscribeCandlestick", "doneC"}
      ]_vars

\* the Binance task stored its history candle and its stream is open, and
\* the Poloniex task goes on to its poll after a failed history fetch
C38_Witness ==
    /\ task["binance"].pc = "doneC"
    /\ AtScore(ZSet(TaskKey("binance")), 1699200) # {}
    /\ task["poloniex"].pc = "SubscribeCandlestick"
    /\ task["poloniex"].failure = "history fetch"
    /\ ZSet(TaskKey("poloniex")) = {}

\* ---------------------------------------------------------------------
\* the events of a session

\* the events the exchange emitted for the symbol s after the snapshot of
\* the running session that no handler was called with
Missed(s) == {u \in feed[s] : u > sess[s].S}

\* C32 No depth event is lost at session start: in a session with installed
\* snapshot id S every diff event with u > S that the exchange emits before
\* the stream closes is applied, in emission order; so when the event v has
\* just been applied, no event emitted with S < u < v is unapplied (none
\* was emitted between the snapshot fetch and the opening of the stream and
\* missed).
C32_NoEventLost ==
    \A s \in Symbols :
       (op.sym = s /\ op.applied) =>
          \A u \in Missed(s) : ~(u < op.event.UpdateID)

\* ---------------------------------------------------------------------
\* the book Worker.GetOrderBook returns

\* C34 get_order_book returns a consistent snapshot: the book returned by
\* GetOrderBook(symbol) is the cached book after a whole number of applied
\* events, and its bids and asks stay as they were when GetOrderBook
\* returned, whatever depth events updateOrderBook applies afterwards.
C34_ConsistentSnapshot ==
    reader.sym # "" =>
        /\ Returned.Bids = reader.book.Bids
        /\ Returned.Asks = reader.book.Asks

\* ---------------------------------------------------------------------
\* the start of the process

\* the process exited because the config could not be read, the ping of the
\* store failed or the Binance worker could not be constructed
StartupFailed ==
    /\ main.pc = "exited"
    /\ main.fatal \in {"Could not read config",
                        "Can't establish connection to database",
                        "Could not connect to Binance"}

\* C31 Startup gate: when the process exits fatally because the config
\* cannot be read, the store ping fails or the Binance worker cannot be
\* constructed, no exchange worker has been started and no API server is
\* listening at that point; and a worker is started or the API server is
\* started only after the store ping succeeded.
C31_StartupGate ==
    /\ StartupFailed => (~main.workers /\ main.serving # "listening")
    /\ (main.workers \/ main.serving # "none") => main.pinged
    /\ (present # {} \/ api # NoApi) => main.pinged
====
